---------------------------- MODULE Spec2Model ----------------------------
(***************************************************************************)
(* A model of the Fibbing controller (Fibbing/FibbingNode).                *)
(*                                                                         *)
(* Part I   - the LSDB ingestor of fibbingnode/southbound/lsdb/lsdb.py:    *)
(*            the LSA-processing thread (process_lsa), the ingest thread   *)
(*            (commit_change) and the RPC client threads that attach and   *)
(*            detach listeners (register_change_listener).                 *)
(*            Specification: Spec.                                         *)
(* Part II  - the northbound controller of                                 *)
(*            fibbingnode/algorithms/southbound_interface.py: the RPC      *)
(*            thread and the application thread of a SouthboundManager     *)
(*            running refresh_lsas.  Specification: SpecNB.                *)
(* Part III - the solver of fibbingnode/algorithms/merger.py: one call of  *)
(*            Merger.solve on an IGP graph and the requirement DAG of one  *)
(*            destination, and the forwarding check of                     *)
(*            tests/test_merger.py.  Specification: SpecMerger.            *)
(***************************************************************************)
EXTENDS Integers, Sequences, FiniteSets, TLC

(***************************************************************************)
(* Bounds of the model                                                     *)
(***************************************************************************)
\* lines the ingest thread hands to commit_change in one run
MaxLines == 3
\* lines waiting in LSDB.queue (Queue() itself is unbounded)
MaxQueue == 2
\* refreshes each thread of the northbound controller starts
MaxRefresh == 2

(***************************************************************************)
(* Part I - data                                                           *)
(***************************************************************************)
\* lsa.py:29
MAX_LS_AGE == 3600

ADD == "ADD"
REM == "REM"
BEGIN == "BEGIN"
COMMIT == "COMMIT"

\* a line handle_lsa_line cannot parse: no '|' separator (the unpacking of
\* line.split raises ValueError), a field that is not key:value (ValueError
\* in _extract_lsa_properties) or a header without rid, age or seq_num
\* (KeyError in LSAHeader)
MALFORMED == "MALFORMED"

\* RouterLSA.TYPE
RouterType == "1"

\* router ids that originate Router LSAs
Rids == {"r1", "r2"}

\* SJMP sessions that connect to the RPC server
Sessions == {"s1"}

\* sequence numbers (signed integers, parsed with int())
SeqNums == {-1, 0, 1}

\* the point-to-point links a Router LSA of rid may carry: none, or one link
\* to the other router
LinkSets(rid) == {{}} \cup {{[endpoint |-> o, metric |-> 1]} : o \in Rids \ {rid}}

\* the LSAs parse_lsa can return in this model: Router LSAs
LSAs == UNION {[type : {RouterType}, key : {rid}, seqnum : SeqNums,
                age : {0, MAX_LS_AGE}, links : LinkSets(rid)] : rid \in Rids}

NoLSA == [type |-> "none"]

\* the keys of LSDB._lsdb, per LSA type
StoreKeys == {<<RouterType, rid>> : rid \in Rids}

StoreKey(lsa) == <<lsa.type, lsa.key>>

\* a REM line names an LSA by its header; its body is not used
RemLSAs == {l \in LSAs : l.age = 0 /\ l.links = {}}

Lines == [action : {BEGIN, COMMIT}, lsa : {NoLSA}]
           \cup [action : {ADD}, lsa : LSAs]
           \cup [action : {REM}, lsa : RemLSAs]
           \cup [action : {MALFORMED}, lsa : {NoLSA}]

EmptyGraph == [nodes |-> {}, edges |-> {}]

VARIABLES
  \* LSDB (lsdb/lsdb.py)
  queue,                \* LSDB.queue
  transaction,          \* LSDB.transaction
  uncommitted_changes,  \* LSDB.uncommitted_changes
  lsdb,                 \* LSDB._lsdb
  graph,                \* LSDB.graph, the published graph
  listener,             \* LSDB.listener, the sessions in the listener table
  \* the LSA-processing thread inside update_graph
  worker_pc,            \* "loop" (in process_lsa) or "update" (in update_graph)
  new_graph,            \* update_graph's new_graph
  pending,              \* the statements of update_graph still to run
  batch,                \* the messages update_graph pushes in this call
  \* the RPC client threads (_new_server_client), one per session
  client_pc,
  \* what each session was sent, in order
  sent,
  \* the ingest thread
  lines_left,
  \* observer: a BEGIN line was processed and its COMMIT line was not yet
  begun,
  \* observer: the ADD/REM lines that changed the store while transaction
  \* was set, since it was last set
  tx_changes

lsdb_vars == <<queue, transaction, uncommitted_changes, lsdb, graph, listener,
               worker_pc, new_graph, pending, batch, client_pc, sent,
               lines_left, begun, tx_changes>>

(***************************************************************************)
(* Part II - data                                                          *)
(***************************************************************************)
\* the threads that call into a SouthboundManager: the one inside run()
\* (json_proxy.communicate, which executes the calls of the southbound
\* controller) and the one of the application
Threads == {"rpc", "app"}

\* the fake LSAs (utils.LSA tuples) an optimizer can return
FakeLSAs == {"a", "b"}

\* the set objects of the controller that can be referred to at one time:
\* by self.advertized_lsa and by the new_lsas of each thread.  Object 0 is the
\* set() of __init__, the others are made by set(optimizer.get_fake_lsas())
Objs == 0..Cardinality(Threads)

VARIABLES
  \* SouthboundManager
  advertized_lsa,       \* the object self.advertized_lsa refers to
  heap,                 \* the content of each set object
  conn,                 \* json_proxy: "init" (stopped), "running" (communicate runs)
  has_initial_topo,
  additional_routes,
  \* the threads
  nb_pc,                \* the statement each thread is at
  new_lsas,             \* _get_diff_lsas's new_lsas: an object
  to_add,               \* refresh_lsas's to_add
  to_rem,               \* refresh_lsas's to_rem
  lsas,                 \* the lsas of advertize_lsa / remove_lsa between
                        \* the call to the advertiser and the set update
  refresh_left,
  \* the advertiser: all the add / remove calls applied in order
  installed,
  \* observers of the refresh each thread runs
  calls,                \* the calls to the advertiser it issued, in order
  solving,              \* what refresh_augmented_topo did: "skipped", "raised", "solved"
  before,               \* the content of advertized_lsa when it started
  returned              \* the content of the set refresh_augmented_topo returned

nb_vars == <<advertized_lsa, heap, conn, has_initial_topo,
             additional_routes, nb_pc, new_lsas, to_add, to_rem, lsas,
             refresh_left, installed, calls, solving, before, returned>>

(***************************************************************************)
(* Part III - state of a Merger (fibbingnode/algorithms/merger.py)         *)
(***************************************************************************)
VARIABLES
  solver,     \* the class of the Merger
  order,      \* the order in which this run's dicts and sets iterate names
  igp_topo,   \* the graph argument of solve
  fwd_dags,   \* the requirements handed to solve: (dest, DAG) in the order
              \* requirements.iteritems() yields them
  req_i,      \* the position of the loop of solve in fwd_dags
  self,       \* the Merger: g, _p, dag, ecmp, data (the Node of each router)
  stage,      \* the statement of solve that runs next
  solve_lsa         \* the list solve returns

merger_vars == <<solver, order, igp_topo, fwd_dags, req_i, self, stage, solve_lsa>>

\* no call of Merger.solve is in progress
NoSolve ==
  /\ solver = "FullMerger"
  /\ order = <<>>
  /\ igp_topo = [node |-> <<>>, edge |-> <<>>]
  /\ fwd_dags = <<>>
  /\ req_i = 0
  /\ self = <<>>
  /\ stage = "idle"
  /\ solve_lsa = {}

(***************************************************************************)
(* Part IV - state of one LSDB.build_graph call on a store                 *)
(***************************************************************************)
VARIABLES
  db,           \* LSDB._lsdb: the Router and AS-external LSAs, by key
  build_pc,     \* the statement of build_graph that runs next
  building,     \* build_graph's new_graph
  controllers,  \* LSDB.controllers
  last_built,   \* the graph the previous build_graph call returned
  builds_left   \* the build_graph calls still to start

build_vars == <<db, build_pc, building, controllers, last_built, builds_left>>

\* no build_graph call is observed
NoBuild ==
  /\ db = <<>>
  /\ build_pc = "idle"
  /\ building = [node |-> <<>>, edge |-> <<>>]
  /\ controllers = <<>>
  /\ last_built = [node |-> <<>>, edge |-> <<>>]
  /\ builds_left = 0

(***************************************************************************)
(* Part V - state of one SimpleJSONMessagePassing session (misc/sjmp.py)   *)
(***************************************************************************)
VARIABLES
  frames,      \* the lines the peer has sent and communicate has not read
  sjmp_pc,     \* "init", "running" (in the loop of communicate), "returned"
               \* (communicate returned) or "raised" (an exception left it)
  stopped,     \* SimpleJSONMessagePassing.stopped
  handled,     \* the hooks that ran to their end, in order
  replies,     \* the messages _json_send wrote to the socket, in order
  pings_left   \* the read timeouts still to come

sjmp_vars == <<frames, sjmp_pc, stopped, handled, replies, pings_left>>

\* no session is observed
NoSJMP ==
  /\ frames = <<>>
  /\ sjmp_pc = "init"
  /\ stopped = TRUE
  /\ handled = <<>>
  /\ replies = <<>>
  /\ pings_left = 0

(***************************************************************************)
(* Part VI - state of the southbound proxy (southbound/fibbing.py:         *)
(* FakeNodeProxyImplem, FibbingManager) and of the LSDB graph that         *)
(* forwarding_address_of reads                                             *)
(***************************************************************************)
VARIABLES
  sb_graph,      \* LSDB.graph
  fib_routes,    \* FibbingManager.routes: prefix -> (address -> metric)
  sb_call,       \* the last call made and its arguments
  sb_result,     \* what that call returned or raised
  sb_calls_left  \* the calls still to come

sb_vars == <<sb_graph, fib_routes, sb_call, sb_result, sb_calls_left>>

\* no call of the southbound proxy is observed
NoSouthbound ==
  /\ sb_graph = [node |-> {}, edge |-> <<>>]
  /\ fib_routes = <<>>
  /\ sb_call = [op |-> "none"]
  /\ sb_result = [out |-> "none"]
  /\ sb_calls_left = 0

(***************************************************************************)
(* Part III - state of a second call of solve on the same arguments        *)
(***************************************************************************)
VARIABLES
  call_no,     \* the call of solve that runs or has returned: 1 or 2
  dag_objs,    \* the DAG objects of the requirements as the passes over them
               \* have left them, complete_dag and check_dest writing in place
  first_lsa    \* the list the first call returned

again_vars == <<call_no, dag_objs, first_lsa>>

\* no second call is observed
NoAgain ==
  /\ call_no = 1
  /\ dag_objs = <<>>
  /\ first_lsa = {}

(***************************************************************************)
(* Part VII - state of CrossOptimizer.solve                                *)
(***************************************************************************)
VARIABLES
  cross_lsas,      \* the list self.solver.solve returned
  reduced_lsas,    \* the list CrossOptimizer.solve returned
  cross_pc         \* "solve" before the call has returned, "returned" after

cross_vars == <<cross_lsas, reduced_lsas, cross_pc>>

\* no CrossOptimizer is observed
NoCross ==
  /\ cross_lsas = <<>>
  /\ reduced_lsas = <<>>
  /\ cross_pc = "none"

(***************************************************************************)
(* Part VIII - state of a ShortestPath object                              *)
(***************************************************************************)
VARIABLES
  spt_pc,      \* "new" before ShortestPath(graph), "built" after it,
               \* "updated" after the paths towards a new destination are added
  spt_p,         \* _default_paths and _default_dist of the object
  spt_g,       \* the graph, with the destination once it is attached
  spt_added,   \* the sources of the edges added towards the destination
  spt_impl     \* the function that updated the tables

spt_vars == <<spt_pc, spt_p, spt_g, spt_added, spt_impl>>

\* no ShortestPath object is observed
NoSPT ==
  /\ spt_pc = "none"
  /\ spt_p = <<>>
  /\ spt_g = <<>>
  /\ spt_added = <<>>
  /\ spt_impl = "none"

(***************************************************************************)
(* Part IX - state of one call of Merger.propagate_lb                      *)
(***************************************************************************)
VARIABLES
  prop_pc,     \* "none" outside a call, "pop" at the head of the while loop,
               \* "neighbors" inside the for loop, "returned" after the call
  prop_S,      \* the Merger as the call has left it, pq, updates, and for a
               \* call of apply_merge its undo records and propagation_failure
  prop_it      \* merging: whether apply_merge made the call; node,
               \* fixed_neighbors and the generator of the for loop; loops:
               \* the influence loops the call has logged

prop_vars == <<prop_pc, prop_S, prop_it>>

\* no call of propagate_lb is observed step by step
NoPropagate ==
  /\ prop_pc = "none"
  /\ prop_S = <<>>
  /\ prop_it = <<>>

(***************************************************************************)
(* Part X - state of a SouthboundListener connected to the LSDB            *)
(* (algorithms/southbound_interface.py)                                    *)
(***************************************************************************)
VARIABLES
  igp_graph,   \* SouthboundListener.igp_graph
  dirty,       \* SouthboundListener.dirty (its truth value)
  rcvd,        \* how many of the messages sent to the session were handled
  last_call,   \* the call handled last: its name, whether it raised, how
               \* many times it called graph_changed
  owed         \* observer: since the last commit() the listener received an
               \* add_edge that completed a bidirectional link, a
               \* remove_edge that deleted an edge or a non-empty
               \* update_node_properties

lst_vars == <<igp_graph, dirty, rcvd, last_call, owed>>

NoCall == [kind |-> "none", raises |-> FALSE, changed |-> 0]

\* the listener as __init__ leaves it
NoListener ==
  /\ igp_graph = [node |-> <<>>, edge |-> <<>>]
  /\ dirty = FALSE
  /\ rcvd = 0
  /\ last_call = NoCall
  /\ owed = FALSE

(***************************************************************************)
(* Part XI - state of the FibbingManager of one controller instance        *)
(* (southbound/fibbing.py) and of the fibbing nodes it drives              *)
(***************************************************************************)
VARIABLES
  fm_controllers,  \* the keys of LSDB.controllers
  fm_leader,       \* FibbingManager.leader
  fm_nodes,        \* len(FibbingManager.nodes): the nodes are 1..fm_nodes
  fm_routes,       \* FibbingManager.routes: prefix -> (address -> point)
  fm_mappings,     \* FibbingManager.route_mappings: prefix -> set of nodes
  fm_advertised,   \* what the fibbing nodes were configured to advertize:
                   \* [node, prefix, via]
  fm_retracted,    \* observer: the (node, prefix) of the points that
                   \* FibbingRoute.retract popped, until the node is given
                   \* another point of the prefix
  fm_calls_left    \* the calls still to come

fm_vars == <<fm_controllers, fm_leader, fm_nodes, fm_routes, fm_mappings,
             fm_advertised, fm_retracted, fm_calls_left>>

\* the manager as __init__ leaves it, before any controller is known
NoManager ==
  /\ fm_controllers = {}
  /\ fm_leader = FALSE
  /\ fm_nodes = 0
  /\ fm_routes = <<>>
  /\ fm_mappings = <<>>
  /\ fm_advertised = {}
  /\ fm_retracted = {}
  /\ fm_calls_left = 0

\* the parts added after Part IX
late_vars == <<lst_vars, fm_vars>>
NoLate == NoListener /\ NoManager

\* the parts added after Part VIII
more_vars == <<prop_vars, late_vars>>
NoMore == NoPropagate /\ NoLate

\* the parts added after Part V
ext_vars == <<sb_vars, again_vars, cross_vars, spt_vars, more_vars>>
NoExt == NoSouthbound /\ NoAgain /\ NoCross /\ NoSPT /\ NoMore

aux_vars == <<build_vars, sjmp_vars, ext_vars>>

\* the parts that have a specification of their own are at rest
NoAux == NoBuild /\ NoSJMP /\ NoExt

vars == <<lsdb_vars, nb_vars, merger_vars, aux_vars>>

(***************************************************************************)
(* Part I - pure functions                                                 *)
(***************************************************************************)
RECURSIVE SetToSeq(_)
\* an iteration order of a set (edges_iter, nodes_iter)
SetToSeq(S) ==
  IF S = {} THEN <<>>
  ELSE LET x == CHOOSE y \in S : TRUE IN <<x>> \o SetToSeq(S \ {x})

\* lsa.py is_newer_seqnum
is_newer_seqnum(a, b) == a > b

\* lsa.py is_expired_lsa
is_expired_lsa(lsa) == lsa.age >= MAX_LS_AGE

\* Python's None, and a value v that is not None
None == {}
Some(v) == {v}
ValueOf(o) == CHOOSE v \in o : TRUE

\* LSDB.get_current_seq_number: None when the key is not stored
get_current_seq_number(store, lsa) ==
  IF StoreKey(lsa) \in StoreKeys /\ store[StoreKey(lsa)] # NoLSA
  THEN Some(store[StoreKey(lsa)].seqnum)
  ELSE None

\* Python truth value of c_seqnum: None and 0 are both false
Truthy(c) == c # None /\ c # Some(0)

\* LSDB.is_old_seqnum
is_old_seqnum(store, lsa) ==
  LET c_seqnum == get_current_seq_number(store, lsa)
      new_seqnum == lsa.seqnum
  IN  /\ Truthy(c_seqnum)
      /\ ~is_newer_seqnum(new_seqnum, ValueOf(c_seqnum))
      /\ new_seqnum # ValueOf(c_seqnum)

\* LSDB.add_lsa
add_lsa(store, lsa) ==
  IF StoreKey(lsa) \in StoreKeys
  THEN [store EXCEPT ![StoreKey(lsa)] = lsa]
  ELSE store

\* LSDB.remove_lsa
remove_lsa(store, lsa) ==
  IF StoreKey(lsa) \in StoreKeys
  THEN [store EXCEPT ![StoreKey(lsa)] = NoLSA]
  ELSE store

\* the LSAs build_graph applies: the stored ones that are not expired
AppliedLSAs(store) ==
  {store[k] : k \in {j \in StoreKeys : store[j] # NoLSA /\ ~is_expired_lsa(store[j])}}

\* LSDB.build_graph: RouterLSA.apply adds the router and one edge per link
\* endpoint; an endpoint that has no LSA of its own is a node without
\* properties.  (No interface address is a node here, so contract_graph and
\* the controller contraction leave the graph as it is.)
build_graph(store) ==
  LET applied == AppliedLSAs(store)
      routers == {l.key : l \in applied}
      edges   == UNION {{[u |-> l.key, v |-> k.endpoint, metric |-> k.metric]
                          : k \in l.links} : l \in applied}
      others  == {e.v : e \in edges} \ routers
  IN  [nodes |-> {[name |-> r, router |-> TRUE] : r \in routers}
                  \cup {[name |-> o, router |-> FALSE] : o \in others},
       edges |-> edges]

has_edge(g, u, v) == \E e \in g.edges : e.u = u /\ e.v = v

\* IGPGraph.difference: the edges (u, v) of g that other does not have
difference(g, other) ==
  {<<e.u, e.v>> : e \in {f \in g.edges : ~has_edge(other, f.u, f.v)}}

\* IGPGraph.export_edge_data
export_edge_data(g, u, v) ==
  LET e == CHOOSE f \in g.edges : f.u = u /\ f.v = v
  IN  [metric |-> e.metric, target |-> FALSE, fake |-> FALSE]

\* IGPGraph.export_edges
export_edges(g) == {<<e.u, e.v, export_edge_data(g, e.u, e.v)>> : e \in g.edges}

\* the node properties that changed: nodes of new that old does not have, or
\* with a property old does not have
node_prop_diff(new, old) ==
  {n \in new.nodes :
     \/ ~\E m \in old.nodes : m.name = n.name
     \/ (n.router /\ ~\E m \in old.nodes : m.name = n.name /\ m.router)}

Msg(kind, arg) == [kind |-> kind, arg |-> arg]

\* the statements of LSDB.update_graph that follow the computation of the
\* differences, in program order
update_steps(new, old) ==
  LET added_edges   == difference(new, old)
      removed_edges == difference(old, new)
      props         == node_prop_diff(new, old)
      adds == [i \in 1..Cardinality(added_edges) |->
                 LET uv == SetToSeq(added_edges)[i]
                 IN  Msg("add_edge", <<uv[1], uv[2], export_edge_data(new, uv[1], uv[2])>>)]
      rems == [i \in 1..Cardinality(removed_edges) |->
                 Msg("remove_edge", SetToSeq(removed_edges)[i])]
      unp  == IF props # {} THEN <<Msg("update_node_properties", props)>> ELSE <<>>
  IN  IF added_edges # {} \/ removed_edges # {} \/ props # {}
      THEN adds \o rems \o unp \o <<Msg("set_graph", <<>>), Msg("commit", <<>>)>>
      ELSE <<>>

\* the for_all_listeners calls among the statements of update_graph
pushed(steps) == SelectSeq(steps, LAMBDA m : m.kind # "set_graph")

\* LSDB.for_all_listeners: the call goes to every session of the table; it
\* reaches those whose socket is still open (_json_send swallows the error
\* of a closed socket)
for_all_listeners(snt, table, cpc, msg) ==
  [s \in Sessions |->
     IF s \in table /\ cpc[s] \notin {"closed", "relisted"}
     THEN Append(snt[s], msg) ELSE snt[s]]

(***************************************************************************)
(* Part I - the LSA-processing thread                                      *)
(***************************************************************************)
\* a handle_lsa_line that keeps the ADD/REM lines of an open transaction
\* away from the store
handle_store_buffering(store, line) ==
  IF transaction \/ line.action \in {BEGIN, COMMIT} \/ is_old_seqnum(store, line.lsa)
  THEN store
  ELSE IF line.action = REM THEN remove_lsa(store, line.lsa)
       ELSE add_lsa(store, line.lsa)

\* LSDB.handle_lsa_line on the store
handle_store(store, line) ==
  IF line.action \in {BEGIN, COMMIT} \/ is_old_seqnum(store, line.lsa)
  THEN store
  ELSE IF line.action = REM THEN remove_lsa(store, line.lsa)
       ELSE add_lsa(store, line.lsa)

\* LSDB.handle_lsa_line on uncommitted_changes
handle_changes(store, n, line) ==
  IF line.action \in {BEGIN, COMMIT} \/ is_old_seqnum(store, line.lsa)
  THEN n
  ELSE n + 1

\* LSDB.handle_lsa_line on transaction (start_transaction, reset_transaction)
handle_transaction(t, line) ==
  IF line.action = BEGIN THEN TRUE
  ELSE IF line.action = COMMIT THEN FALSE
  ELSE t

\* a guard of commit() that does not look at the transaction flag
must_commit_in_transaction(q, t, n) == q = <<>> /\ n # 0

\* the guard of LSDB.commit() in process_lsa
must_commit(q, t, n) == q = <<>> /\ ~t /\ n # 0

\* LSDB.commit up to the first message of update_graph.  When nothing
\* differs update_graph pushes nothing and keeps the old graph object.
commit(t, n, store) ==
  IF must_commit(queue', t, n)
  THEN LET ng == build_graph(store)
           steps == update_steps(ng, graph)
       IN  IF steps = <<>>
           THEN /\ uncommitted_changes' = 0
                /\ UNCHANGED <<worker_pc, new_graph, pending, batch>>
           ELSE /\ uncommitted_changes' = n
                /\ worker_pc' = "update"
                /\ new_graph' = ng
                /\ pending' = steps
                /\ batch' = pushed(steps)
  ELSE /\ uncommitted_changes' = n
       /\ UNCHANGED <<worker_pc, new_graph, pending, batch>>

\* one iteration of process_lsa that reads a line
process_lsa_line ==
  /\ UNCHANGED <<nb_vars, merger_vars, aux_vars>>
  /\ worker_pc = "loop"
  /\ queue # <<>>
  /\ Head(queue).action # MALFORMED
  /\ LET line == Head(queue)
     IN  /\ queue' = Tail(queue)
         /\ lsdb' = handle_store(lsdb, line)
         /\ transaction' = handle_transaction(transaction, line)
         /\ begun' = handle_transaction(begun, line)
         /\ tx_changes' = IF ~transaction' \/ line.action = BEGIN THEN 0
                          ELSE tx_changes + handle_changes(lsdb, 0, line)
         /\ commit(transaction', handle_changes(lsdb, uncommitted_changes, line), lsdb')
  /\ UNCHANGED <<graph, listener, client_pc, sent, lines_left>>

\* one iteration of process_lsa that reads a line handle_lsa_line cannot
\* parse: the exception is not Empty, so it leaves process_lsa and the thread
\* ends
process_lsa_raise ==
  /\ UNCHANGED <<nb_vars, merger_vars, aux_vars>>
  /\ worker_pc = "loop"
  /\ queue # <<>>
  /\ Head(queue).action = MALFORMED
  /\ queue' = Tail(queue)
  /\ worker_pc' = "dead"
  /\ UNCHANGED <<transaction, uncommitted_changes, lsdb, graph, listener,
                 new_graph, pending, batch, client_pc, sent, lines_left, begun,
                 tx_changes>>

\* one iteration of process_lsa whose queue.get times out (Empty)
process_lsa_timeout ==
  /\ UNCHANGED <<nb_vars, merger_vars, aux_vars>>
  /\ worker_pc = "loop"
  /\ queue = <<>>
  /\ queue' = queue
  /\ transaction' = FALSE
  /\ commit(FALSE, uncommitted_changes, lsdb)
  /\ tx_changes' = 0
  /\ UNCHANGED <<lsdb, graph, listener, client_pc, sent, lines_left, begun>>

\* one statement of update_graph: a for_all_listeners call, or the
\* assignment of self.graph; commit() ends with uncommitted_changes = 0
update_graph_step ==
  /\ UNCHANGED <<nb_vars, merger_vars, aux_vars>>
  /\ worker_pc = "update"
  /\ LET step == Head(pending)
     IN  /\ pending' = Tail(pending)
         /\ IF step.kind = "set_graph"
            THEN graph' = new_graph /\ sent' = sent
            ELSE /\ graph' = graph
                 /\ sent' = for_all_listeners(sent, listener, client_pc, step)
         /\ IF Tail(pending) = <<>>
            THEN /\ worker_pc' = "loop"
                 /\ uncommitted_changes' = 0
                 /\ new_graph' = EmptyGraph
                 /\ batch' = <<>>
            ELSE UNCHANGED <<worker_pc, uncommitted_changes, new_graph, batch>>
  /\ UNCHANGED <<queue, transaction, lsdb, listener, client_pc, lines_left,
                 begun, tx_changes>>

(***************************************************************************)
(* Part I - the ingest thread                                              *)
(***************************************************************************)
\* LSDB.commit_change(line): last_line is '' for ever, and the lines of the
\* model are not empty
commit_change(line) ==
  /\ UNCHANGED <<nb_vars, merger_vars, aux_vars>>
  /\ lines_left > 0
  /\ Len(queue) < MaxQueue
  /\ queue' = Append(queue, line)
  /\ lines_left' = lines_left - 1
  /\ UNCHANGED <<transaction, uncommitted_changes, lsdb, graph, listener,
                 worker_pc, new_graph, pending, batch, client_pc, sent, begun,
                 tx_changes>>

(***************************************************************************)
(* Part I - the RPC client threads                                         *)
(***************************************************************************)
\* register_change_listener(s) for a session not in the table, first
\* statement: the session enters the table
register_insert(s) ==
  /\ UNCHANGED <<nb_vars, merger_vars, aux_vars>>
  /\ client_pc[s] = "new"
  /\ s \notin listener
  /\ listener' = listener \cup {s}
  /\ client_pc' = [client_pc EXCEPT ![s] = "inserted"]
  /\ UNCHANGED <<queue, transaction, uncommitted_changes, lsdb, graph,
                 worker_pc, new_graph, pending, batch, sent, lines_left,
                 begun, tx_changes>>

\* register_change_listener(s), second statement: l.bootstrap_graph(...)
register_bootstrap(s) ==
  /\ UNCHANGED <<nb_vars, merger_vars, aux_vars>>
  /\ client_pc[s] = "inserted"
  /\ sent' = [sent EXCEPT ![s] =
                Append(@, Msg("bootstrap_graph", <<export_edges(graph), graph.nodes>>))]
  /\ client_pc' = [client_pc EXCEPT ![s] = "attached"]
  /\ UNCHANGED <<queue, transaction, uncommitted_changes, lsdb, graph, listener,
                 worker_pc, new_graph, pending, batch, lines_left, begun,
                 tx_changes>>

\* _new_server_client: communicate() returns and the socket is closed
client_close(s) ==
  /\ UNCHANGED <<nb_vars, merger_vars, aux_vars>>
  /\ client_pc[s] = "attached"
  /\ client_pc' = [client_pc EXCEPT ![s] = "closed"]
  /\ UNCHANGED <<queue, transaction, uncommitted_changes, lsdb, graph, listener,
                 worker_pc, new_graph, pending, batch, sent, lines_left,
                 begun, tx_changes>>

\* register_change_listener(s) for a session of the table: it is deleted
register_delete(s) ==
  /\ UNCHANGED <<nb_vars, merger_vars, aux_vars>>
  /\ client_pc[s] = "closed"
  /\ s \in listener
  /\ listener' = listener \ {s}
  /\ client_pc' = [client_pc EXCEPT ![s] = "gone"]
  /\ UNCHANGED <<queue, transaction, uncommitted_changes, lsdb, graph,
                 worker_pc, new_graph, pending, batch, sent, lines_left,
                 begun, tx_changes>>

\* register_change_listener(s) once more, for a session that has left the
\* table: the del raises KeyError, so the session is stored again and
\* bootstrap_graph is called on its closed socket (_json_send swallows the
\* error, nothing is received)
register_again(s) ==
  /\ UNCHANGED <<nb_vars, merger_vars, aux_vars>>
  /\ client_pc[s] = "gone"
  /\ s \notin listener
  /\ listener' = listener \cup {s}
  /\ client_pc' = [client_pc EXCEPT ![s] = "relisted"]
  /\ UNCHANGED <<queue, transaction, uncommitted_changes, lsdb, graph,
                 worker_pc, new_graph, pending, batch, sent, lines_left,
                 begun, tx_changes>>

(***************************************************************************)
(* Part I - specification                                                  *)
(***************************************************************************)
InitLSDB ==
  /\ queue = <<>>
  /\ transaction = FALSE
  /\ uncommitted_changes = 0
  /\ lsdb = [k \in StoreKeys |-> NoLSA]
  /\ graph = EmptyGraph
  /\ listener = {}
  /\ worker_pc = "loop"
  /\ new_graph = EmptyGraph
  /\ pending = <<>>
  /\ batch = <<>>
  /\ client_pc = [s \in Sessions |-> "new"]
  /\ sent = [s \in Sessions |-> <<>>]
  /\ lines_left = MaxLines
  /\ begun = FALSE
  /\ tx_changes = 0

(***************************************************************************)
(* Part II - SouthboundManager                                             *)
(***************************************************************************)
\* json_proxy.alive()
alive == conn = "running"

\* the content of the set self.advertized_lsa refers to
advertized == heap[advertized_lsa]

\* the threads inside _get_diff_lsas that hold the set refresh_augmented_topo
\* returned
holders(pc) == {t \in Threads : pc[t] \in {"diff_add", "diff_rem", "assign"}}

\* the set objects something refers to
referenced(adv, pc, new) == {adv} \cup {new[t] : t \in holders(pc)}

\* a new set object
fresh == CHOOSE o \in Objs : o \notin referenced(advertized_lsa, nb_pc, new_lsas)

\* the set objects nothing refers to are gone
collect(h, adv, pc, new) ==
  [o \in Objs |-> IF o \in referenced(adv, pc, new) THEN h[o] ELSE {}]

\* the return of refresh_lsas: its locals and its observers are gone
leave_refresh(t) ==
  /\ calls' = [calls EXCEPT ![t] = <<>>]
  /\ solving' = [solving EXCEPT ![t] = "none"]
  /\ before' = [before EXCEPT ![t] = {}]
  /\ returned' = [returned EXCEPT ![t] = {}]
  /\ to_add' = [to_add EXCEPT ![t] = {}]
  /\ to_rem' = [to_rem EXCEPT ![t] = {}]

\* refresh_lsas goes on: its locals and its observers stay
stay_in_refresh ==
  UNCHANGED <<calls, solving, before, returned, to_add, to_rem>>

\* a refresh_lsas that advertizes before it removes
after_diff_add_first(ta, tr) ==
  IF ta = {} /\ tr = {} THEN "idle"
  ELSE IF ta # {} THEN "add" ELSE "remove"

\* refresh_lsas after _get_diff_lsas: return when there is nothing to do,
\* else remove_lsa first when there is something to remove
after_diff(ta, tr) ==
  IF ta = {} /\ tr = {} THEN "idle"
  ELSE IF tr # {} THEN "remove" ELSE "add"

\* refresh_lsas after remove_lsa
after_remove(ta) == IF ta # {} THEN "add" ELSE "idle"

\* SouthboundListener.run: communicate() starts, stopped = False
run ==
  /\ conn = "init"
  /\ conn' = "running"
  /\ UNCHANGED <<advertized_lsa, heap, has_initial_topo,
                 additional_routes, nb_pc, new_lsas, to_add, to_rem, lsas,
                 refresh_left, installed, calls, solving, before, returned>>
  /\ UNCHANGED <<lsdb_vars, merger_vars, aux_vars>>

\* the start of refresh_lsas by thread t
enter_refresh(t) ==
  /\ refresh_left[t] > 0
  /\ refresh_left' = [refresh_left EXCEPT ![t] = @ - 1]
  /\ nb_pc' = [nb_pc EXCEPT ![t] = "topo"]
  /\ before' = [before EXCEPT ![t] = advertized]
  /\ UNCHANGED <<calls, solving, returned, to_add, to_rem>>

\* SouthboundListener.bootstrap_graph up to received_initial_graph, on the
\* RPC thread: has_initial_topo = True
bootstrap_graph ==
  /\ alive
  /\ nb_pc["rpc"] = "idle"
  /\ ~has_initial_topo
  /\ refresh_left["rpc"] > 0
  /\ has_initial_topo' = TRUE
  /\ nb_pc' = [nb_pc EXCEPT !["rpc"] =
                  IF additional_routes # {} THEN "boot_add" ELSE "boot_changed"]
  /\ UNCHANGED <<advertized_lsa, heap, conn, additional_routes,
                 new_lsas, to_add, to_rem, lsas, refresh_left, installed,
                 calls, solving, before, returned>>
  /\ UNCHANGED <<lsdb_vars, merger_vars, aux_vars>>

\* received_initial_graph: advertize_lsa(*additional_routes), the call to
\* the advertiser
boot_add_call ==
  /\ nb_pc["rpc"] = "boot_add"
  /\ lsas' = [lsas EXCEPT !["rpc"] = additional_routes]
  /\ installed' = installed \cup additional_routes
  /\ nb_pc' = [nb_pc EXCEPT !["rpc"] = "boot_upd"]
  /\ UNCHANGED <<advertized_lsa, heap, conn, has_initial_topo,
                 additional_routes, new_lsas, to_add, to_rem, refresh_left,
                 calls, solving, before, returned>>
  /\ UNCHANGED <<lsdb_vars, merger_vars, aux_vars>>

\* received_initial_graph: self.advertized_lsa.update(lsas)
boot_add_update ==
  /\ nb_pc["rpc"] = "boot_upd"
  /\ heap' = [heap EXCEPT ![advertized_lsa] = @ \cup lsas["rpc"]]
  /\ lsas' = [lsas EXCEPT !["rpc"] = {}]
  /\ nb_pc' = [nb_pc EXCEPT !["rpc"] = "boot_changed"]
  /\ UNCHANGED <<advertized_lsa, conn, has_initial_topo,
                 additional_routes, new_lsas, to_add, to_rem, refresh_left,
                 installed, calls, solving, before, returned>>
  /\ UNCHANGED <<lsdb_vars, merger_vars, aux_vars>>

\* bootstrap_graph: self.graph_changed(), which is refresh_lsas
boot_graph_changed ==
  /\ nb_pc["rpc"] = "boot_changed"
  /\ enter_refresh("rpc")
  /\ UNCHANGED <<advertized_lsa, heap, conn, has_initial_topo,
                 additional_routes, new_lsas, lsas, installed>>
  /\ UNCHANGED <<lsdb_vars, merger_vars, aux_vars>>

\* a call that ends in refresh_lsas: commit() of a dirty graph on the RPC
\* thread (graph_changed), a requirement change (add_dag_requirement,
\* remove_all_dag_requirements, ...) on the application thread
refresh_lsas(t) ==
  /\ nb_pc[t] = "idle"
  /\ t = "rpc" => alive
  /\ enter_refresh(t)
  /\ UNCHANGED <<advertized_lsa, heap, conn, has_initial_topo,
                 additional_routes, new_lsas, lsas, installed>>
  /\ UNCHANGED <<lsdb_vars, merger_vars, aux_vars>>

\* refresh_augmented_topo without its test: the solver is called whatever
\* the state of the connection and of the topology
refresh_augmented_topo_untested(t) ==
  /\ nb_pc[t] = "topo"
  /\ nb_pc' = [nb_pc EXCEPT ![t] = "solve"]
  /\ UNCHANGED <<new_lsas, solving, returned>>
  /\ UNCHANGED <<advertized_lsa, heap, conn, has_initial_topo,
                 additional_routes, to_add, to_rem, lsas, refresh_left,
                 installed, calls, before>>
  /\ UNCHANGED <<lsdb_vars, merger_vars, aux_vars>>

\* refresh_augmented_topo, the test: without a live connection or an
\* initial topology it returns self.advertized_lsa itself
refresh_augmented_topo(t) ==
  /\ nb_pc[t] = "topo"
  /\ IF ~alive \/ ~has_initial_topo
     THEN /\ new_lsas' = [new_lsas EXCEPT ![t] = advertized_lsa]
          /\ solving' = [solving EXCEPT ![t] = "skipped"]
          /\ returned' = [returned EXCEPT ![t] = advertized]
          /\ nb_pc' = [nb_pc EXCEPT ![t] = "diff_add"]
     ELSE /\ nb_pc' = [nb_pc EXCEPT ![t] = "solve"]
          /\ UNCHANGED <<new_lsas, solving, returned>>
  /\ UNCHANGED <<advertized_lsa, heap, conn, has_initial_topo,
                 additional_routes, to_add, to_rem, lsas, refresh_left,
                 installed, calls, before>>
  /\ UNCHANGED <<lsdb_vars, merger_vars, aux_vars>>

\* refresh_augmented_topo: optimizer.solve returns and
\* set(optimizer.get_fake_lsas()) is a new set, of content new
solve_returns(t, new) ==
  /\ nb_pc[t] = "solve"
  /\ heap' = [heap EXCEPT ![fresh] = new]
  /\ new_lsas' = [new_lsas EXCEPT ![t] = fresh]
  /\ solving' = [solving EXCEPT ![t] = "solved"]
  /\ returned' = [returned EXCEPT ![t] = new]
  /\ nb_pc' = [nb_pc EXCEPT ![t] = "diff_add"]
  /\ UNCHANGED <<advertized_lsa, conn, has_initial_topo, additional_routes,
                 to_add, to_rem, lsas, refresh_left, installed, calls, before>>
  /\ UNCHANGED <<lsdb_vars, merger_vars, aux_vars>>

\* refresh_augmented_topo: optimizer.solve raises, self.advertized_lsa is
\* returned
solve_raises(t) ==
  /\ nb_pc[t] = "solve"
  /\ new_lsas' = [new_lsas EXCEPT ![t] = advertized_lsa]
  /\ solving' = [solving EXCEPT ![t] = "raised"]
  /\ returned' = [returned EXCEPT ![t] = advertized]
  /\ nb_pc' = [nb_pc EXCEPT ![t] = "diff_add"]
  /\ UNCHANGED <<advertized_lsa, heap, conn, has_initial_topo,
                 additional_routes, to_add, to_rem, lsas, refresh_left,
                 installed, calls, before>>
  /\ UNCHANGED <<lsdb_vars, merger_vars, aux_vars>>

\* _get_diff_lsas: to_add = new_lsas.difference(self.advertized_lsa)
diff_to_add(t) ==
  /\ nb_pc[t] = "diff_add"
  /\ to_add' = [to_add EXCEPT ![t] = heap[new_lsas[t]] \ advertized]
  /\ nb_pc' = [nb_pc EXCEPT ![t] = "diff_rem"]
  /\ UNCHANGED <<advertized_lsa, heap, conn, has_initial_topo,
                 additional_routes, new_lsas, to_rem, lsas, refresh_left,
                 installed, calls, solving, before, returned>>
  /\ UNCHANGED <<lsdb_vars, merger_vars, aux_vars>>

\* _get_diff_lsas: to_rem = self.advertized_lsa.difference(new_lsas)
diff_to_rem(t) ==
  /\ nb_pc[t] = "diff_rem"
  /\ to_rem' = [to_rem EXCEPT ![t] = advertized \ heap[new_lsas[t]]]
  /\ nb_pc' = [nb_pc EXCEPT ![t] = "assign"]
  /\ UNCHANGED <<advertized_lsa, heap, conn, has_initial_topo,
                 additional_routes, new_lsas, to_add, lsas, refresh_left,
                 installed, calls, solving, before, returned>>
  /\ UNCHANGED <<lsdb_vars, merger_vars, aux_vars>>

\* _get_diff_lsas: self.advertized_lsa = new_lsas, and the tests of
\* refresh_lsas on its two locals
assign_advertized(t) ==
  /\ nb_pc[t] = "assign"
  /\ advertized_lsa' = new_lsas[t]
  /\ nb_pc' = [nb_pc EXCEPT ![t] = after_diff(to_add[t], to_rem[t])]
  /\ new_lsas' = [new_lsas EXCEPT ![t] = 0]
  /\ heap' = collect(heap, advertized_lsa', nb_pc', new_lsas')
  /\ IF nb_pc'[t] = "idle" THEN leave_refresh(t) ELSE stay_in_refresh
  /\ UNCHANGED <<conn, has_initial_topo, additional_routes, lsas,
                 refresh_left, installed>>
  /\ UNCHANGED <<lsdb_vars, merger_vars, aux_vars>>

\* remove_lsa(*to_rem): self.quagga_manager.remove(lsas)
remove_call(t) ==
  /\ nb_pc[t] = "remove"
  /\ lsas' = [lsas EXCEPT ![t] = to_rem[t]]
  /\ installed' = installed \ to_rem[t]
  /\ calls' = [calls EXCEPT ![t] = Append(@, [op |-> "remove", lsas |-> to_rem[t]])]
  /\ nb_pc' = [nb_pc EXCEPT ![t] = "remove_upd"]
  /\ UNCHANGED <<advertized_lsa, heap, conn, has_initial_topo,
                 additional_routes, new_lsas, to_add, to_rem, refresh_left,
                 solving, before, returned>>
  /\ UNCHANGED <<lsdb_vars, merger_vars, aux_vars>>

\* remove_lsa: self.advertized_lsa.difference_update(lsas)
remove_update(t) ==
  /\ nb_pc[t] = "remove_upd"
  /\ heap' = [heap EXCEPT ![advertized_lsa] = @ \ lsas[t]]
  /\ lsas' = [lsas EXCEPT ![t] = {}]
  /\ nb_pc' = [nb_pc EXCEPT ![t] = after_remove(to_add[t])]
  /\ IF nb_pc'[t] = "idle" THEN leave_refresh(t) ELSE stay_in_refresh
  /\ UNCHANGED <<advertized_lsa, conn, has_initial_topo, additional_routes,
                 new_lsas, refresh_left, installed>>
  /\ UNCHANGED <<lsdb_vars, merger_vars, aux_vars>>

\* advertize_lsa(*to_add): self.quagga_manager.add(lsas)
add_call(t) ==
  /\ nb_pc[t] = "add"
  /\ lsas' = [lsas EXCEPT ![t] = to_add[t]]
  /\ installed' = installed \cup to_add[t]
  /\ calls' = [calls EXCEPT ![t] = Append(@, [op |-> "add", lsas |-> to_add[t]])]
  /\ nb_pc' = [nb_pc EXCEPT ![t] = "add_upd"]
  /\ UNCHANGED <<advertized_lsa, heap, conn, has_initial_topo,
                 additional_routes, new_lsas, to_add, to_rem, refresh_left,
                 solving, before, returned>>
  /\ UNCHANGED <<lsdb_vars, merger_vars, aux_vars>>

\* advertize_lsa: self.advertized_lsa.update(lsas)
add_update(t) ==
  /\ nb_pc[t] = "add_upd"
  /\ heap' = [heap EXCEPT ![advertized_lsa] = @ \cup lsas[t]]
  /\ lsas' = [lsas EXCEPT ![t] = {}]
  /\ nb_pc' = [nb_pc EXCEPT ![t] = "idle"]
  /\ leave_refresh(t)
  /\ UNCHANGED <<advertized_lsa, conn, has_initial_topo, additional_routes,
                 new_lsas, refresh_left, installed>>
  /\ UNCHANGED <<lsdb_vars, merger_vars, aux_vars>>

InitNB ==
  /\ advertized_lsa = 0
  /\ heap = [o \in Objs |-> {}]
  /\ conn = "init"
  /\ has_initial_topo = FALSE
  /\ additional_routes \in {{}, {"a"}}
  /\ nb_pc = [t \in Threads |-> "idle"]
  /\ new_lsas = [t \in Threads |-> 0]
  /\ to_add = [t \in Threads |-> {}]
  /\ to_rem = [t \in Threads |-> {}]
  /\ lsas = [t \in Threads |-> {}]
  /\ refresh_left = [t \in Threads |-> MaxRefresh]
  /\ installed = {}
  /\ calls = [t \in Threads |-> <<>>]
  /\ solving = [t \in Threads |-> "none"]
  /\ before = [t \in Threads |-> {}]
  /\ returned = [t \in Threads |-> {}]

NextNB ==
  \/ run
  \/ bootstrap_graph
  \/ boot_add_call
  \/ boot_add_update
  \/ boot_graph_changed
  \/ \E t \in Threads : refresh_lsas(t)
  \/ \E t \in Threads : refresh_augmented_topo(t)
  \/ \E t \in Threads : \E new \in SUBSET FakeLSAs : solve_returns(t, new)
  \/ \E t \in Threads : solve_raises(t)
  \/ \E t \in Threads : diff_to_add(t)
  \/ \E t \in Threads : diff_to_rem(t)
  \/ \E t \in Threads : assign_advertized(t)
  \/ \E t \in Threads : remove_call(t)
  \/ \E t \in Threads : remove_update(t)
  \/ \E t \in Threads : add_call(t)
  \/ \E t \in Threads : add_update(t)

\* the northbound controller alone
InitController == InitLSDB /\ InitNB /\ NoSolve /\ NoAux
SpecNB == InitController /\ [][NextNB]_vars

\* the LSDB alone
Init == InitLSDB /\ InitNB /\ additional_routes = {} /\ NoSolve /\ NoAux

\* the lines fed to the LSDB: BEGIN, COMMIT, a malformed line, the lines
\* about the Router LSA of r1 (an expired LSA comes with one sequence number
\* and no link), and for r2 the ADD lines of one sequence number
FedLines ==
  {l \in Lines :
     /\ l.action \in {ADD, REM} /\ l.lsa.key # "r1" =>
          l.action = ADD /\ l.lsa.seqnum = 1 /\ l.lsa.age = 0
     /\ l.action = ADD /\ l.lsa.age # 0 => l.lsa.seqnum = 1 /\ l.lsa.links = {}}

Next ==
  \/ process_lsa_line
  \/ process_lsa_raise
  \/ process_lsa_timeout
  \/ update_graph_step
  \/ \E line \in FedLines : commit_change(line)
  \/ \E s \in Sessions : register_insert(s)
  \/ \E s \in Sessions : register_bootstrap(s)
  \/ \E s \in Sessions : client_close(s)
  \/ \E s \in Sessions : register_delete(s)
  \/ \E s \in Sessions : register_again(s)

Spec == Init /\ [][Next]_vars

\* the steps of the LSA-processing thread
worker ==
  \/ process_lsa_line
  \/ process_lsa_raise
  \/ process_lsa_timeout
  \/ update_graph_step

\* the LSDB with a worker that is scheduled as long as it can run: it is a
\* thread of its own (start_daemon_thread in LSDB.__init__), and queue.get
\* returns a line or raises Empty after 5 s
\* (no client connects: the listeners play no part in what the worker does
\* to the store, the counter and the graph)
NextFair == worker \/ \E line \in FedLines : commit_change(line)
SpecFair == Init /\ [][NextFair]_vars /\ WF_vars(worker)

(***************************************************************************)
(* Part I - properties                                                     *)
(***************************************************************************)
DiffKinds == {"add_edge", "remove_edge", "update_node_properties", "commit"}

\* the diff messages among the messages sq
DiffMsgs(sq) == SelectSeq(sq, LAMBDA m : m.kind \in DiffKinds)

\* the last n elements of sq
Suffix(sq, n) == SubSeq(sq, Len(sq) - n + 1, Len(sq))

\* the step is an iteration of process_lsa that handles a line
HandlesLine == worker_pc = "loop" /\ queue # <<>> /\ queue' = Tail(queue)

\* C2: for every key of the store, the seqnum of the LSA stored under the key
\* never decreases from one handled line to the next: an ADD with a lower
\* seqnum than the stored one leaves the stored LSA as it is.
C2_SeqnumNeverDecreases ==
  [][\A k \in StoreKeys :
       lsdb[k] # NoLSA /\ lsdb'[k] # NoLSA => lsdb'[k].seqnum >= lsdb[k].seqnum]_vars

\* C3 as stated: from the BEGIN line to its COMMIT line, queue-idle timeouts
\* included, the published graph does not change and no diff message is sent.
C3_GraphFrozenUntilCommitLine ==
  [][begun /\ begun' =>
       /\ graph' = graph
       /\ \A s \in Sessions : DiffMsgs(sent'[s]) = DiffMsgs(sent[s])]_vars

\* C3 amended: as long as the transaction flag stays set (from the BEGIN line
\* to the first of the COMMIT line and a queue-idle timeout) the published
\* graph does not change and no diff message is sent.
C3_GraphFrozenWhileFlagSet ==
  [][transaction /\ transaction' =>
       /\ graph' = graph
       /\ \A s \in Sessions : DiffMsgs(sent'[s]) = DiffMsgs(sent[s])]_vars

\* a transaction is open, an ADD line was handled inside it while a session
\* listens, and the published graph still lacks the router it adds
C3_Witness ==
  /\ transaction
  /\ tx_changes > 0
  /\ queue = <<>>
  /\ worker_pc = "loop"
  /\ build_graph(lsdb) # graph
  /\ \E s \in Sessions : client_pc[s] = "attached"

C9_WholeBatchDelivered ==
  [][worker_pc = "update" /\ worker_pc' = "loop" =>
       \A s \in listener :
         client_pc[s] \in {"inserted", "attached"} =>
           /\ Len(sent'[s]) >= Len(batch)
           /\ Suffix(sent'[s], Len(batch)) = batch]_vars

\* C10: the messages of a session start with its one bootstrap_graph, which
\* carries the edges and the node properties of the published graph; every
\* diff message comes after it.
C10_BootstrapFirst ==
  [][\A s \in Sessions : \A i \in 1..Len(sent'[s]) :
       /\ (sent'[s][i].kind = "bootstrap_graph") <=> (i = 1)
       /\ (i > Len(sent[s]) /\ sent'[s][i].kind = "bootstrap_graph") =>
            sent'[s][i].arg = <<export_edges(graph), graph.nodes>>]_vars

\* C11: a register_change_listener call for a session whose socket is closed
\* and which is not in the listener table (a removal asked again) leaves the
\* table as it is and sends the session nothing.
C11_RemovalIdempotent ==
  [][\A s \in Sessions :
       client_pc[s] = "gone" /\ s \notin listener /\ client_pc'[s] # "gone" =>
         listener' = listener /\ sent'[s] = sent[s]]_vars

\* the RPC client thread of s is inside register_change_listener: it has
\* written the listener table and has not returned
registering(s) == client_pc[s] = "inserted"

\* the step is a for_all_listeners call of update_graph
fans_out ==
  /\ worker_pc = "update"
  /\ pending' = Tail(pending)
  /\ Head(pending).kind # "set_graph"

\* update_graph has made some of the for_all_listeners calls of a batch and
\* has yet to make the others
mid_batch ==
  /\ worker_pc = "update"
  /\ pushed(pending) # <<>>
  /\ Len(pushed(pending)) < Len(batch)

\* C35: the listener table is used under a lock: no for_all_listeners call
\* runs while a register_change_listener call is under way, and the table
\* does not change between the for_all_listeners calls of one batch.
C35_ListenerTableLocked ==
  [][/\ fans_out => \A s \in Sessions : ~registering(s)
     /\ listener' # listener => ~mid_batch]_vars

\* the step ends an iteration of process_lsa
ends_iteration ==
  /\ worker_pc = "loop"
  /\ queue' # queue \/ queue = <<>>
  /\ lines_left' = lines_left
  /\ client_pc' = client_pc

\* the step ends an iteration of process_lsa with an empty queue, no open
\* transaction and uncommitted changes
commit_due ==
  /\ ends_iteration
  /\ worker_pc' # "dead"
  /\ must_commit(queue', transaction',
                 IF queue = <<>> THEN uncommitted_changes
                 ELSE handle_changes(lsdb, uncommitted_changes, Head(queue)))

\* an iteration that ends with a commit due rebuilds the graph: either
\* nothing is to be pushed and the counter is reset at once, or update_graph
\* starts pushing the rebuilt graph, and the counter is reset when it has
\* published it; an iteration whose queue.get times out closes the
\* transaction
IdleCommit ==
  /\ [][commit_due =>
          \/ uncommitted_changes' = 0 /\ update_steps(build_graph(lsdb'), graph) = <<>>
          \/ worker_pc' = "update" /\ new_graph' = build_graph(lsdb')]_vars
  /\ [][ends_iteration /\ queue = <<>> => ~transaction']_vars
  /\ [][worker_pc = "update" /\ worker_pc' = "loop" =>
          uncommitted_changes' = 0 /\ graph' = new_graph]_vars

\* C37: an iteration of process_lsa that ends with an empty queue, no open
\* transaction and uncommitted changes rebuilds and publishes the graph and
\* resets uncommitted_changes; the idle timeout closes an open transaction;
\* so, with a worker that is scheduled, uncommitted changes are always
\* eventually committed.
C37_ChangesEventuallyPublished ==
  IdleCommit /\ (uncommitted_changes > 0 ~> uncommitted_changes = 0)

\* the same, the liveness being asked of the runs whose worker never meets a
\* line it cannot parse
ChangesPublishedWhileWorkerLives ==
  IdleCommit /\ (<>(worker_pc = "dead") \/ (uncommitted_changes > 0 ~> uncommitted_changes = 0))

\* the step is an iteration of process_lsa whose queue.get times out
TimesOut ==
  /\ worker_pc = "loop"
  /\ queue = <<>>
  /\ client_pc' = client_pc
  /\ lines_left' = lines_left

\* C14: when queue.get times out while a transaction is open, the changes
\* handled so far are committed (the graph is rebuilt and published) and a
\* transaction is open afterwards.
C14_TimeoutReopensTransaction ==
  [][TimesOut /\ transaction =>
       /\ uncommitted_changes > 0 =>
            (uncommitted_changes' = 0 \/ worker_pc' = "update")
       /\ transaction']_vars

\* C15: a REM line of a Router LSA that is handled while no other change is
\* uncommitted (no ADD is bundled with it) is followed by no rebuild and no
\* listener notification: handling it neither starts update_graph nor counts
\* as a change to commit.
C15_RemOfRouterLSAStartsNoRebuild ==
  [][HandlesLine /\ Head(queue).action = REM /\ uncommitted_changes = 0 =>
       /\ worker_pc' = "loop"
       /\ uncommitted_changes' = 0
       /\ pending' = <<>>]_vars

\* C16: handling a REM line leaves no LSA stored under the type and key of
\* the line, whatever the seqnum of the line and whether or not an LSA was
\* stored, changes no other key, and the thread goes on (no error).
C16_RemDeletesByKey ==
  [][HandlesLine /\ Head(queue).action = REM =>
       /\ lsdb'[StoreKey(Head(queue).lsa)] = NoLSA
       /\ \A k \in StoreKeys \ {StoreKey(Head(queue).lsa)} : lsdb'[k] = lsdb[k]
       /\ worker_pc' \in {"loop", "update"}]_vars

\* C17: commit_change drops a line identical to the line it received just
\* before: a line is never enqueued right behind an identical line that is
\* still waiting in the queue.
C17_DuplicateLineDropped ==
  [][queue # <<>> /\ Len(queue') > Len(queue) =>
       queue'[Len(queue')] # queue[Len(queue)]]_vars

\* C18: a line that cannot be parsed is skipped: handling it changes neither
\* the transaction flag nor the store, and the thread stays in the loop of
\* process_lsa, where it handles the lines that follow.
C18_MalformedLineSkipped ==
  [][HandlesLine /\ Head(queue).action = MALFORMED =>
       /\ transaction' = transaction
       /\ lsdb' = lsdb
       /\ worker_pc' = "loop"]_vars

(***************************************************************************)
(* Part II - properties                                                    *)
(***************************************************************************)
\* the step is the return of thread t from refresh_lsas
RefreshReturns(t) ==
  nb_pc[t] \in {"assign", "remove_upd", "add_upd"} /\ nb_pc'[t] = "idle"

\* the LSAs passed to the calls op of cs
CallArgs(cs, op) == UNION {cs[i].lsas : i \in {j \in DOMAIN cs : cs[j].op = op}}

\* the calls of a refresh that removes tr and adds ta
ExpectedCalls(ta, tr) ==
  (IF tr # {} THEN <<[op |-> "remove", lsas |-> tr]>> ELSE <<>>)
    \o (IF ta # {} THEN <<[op |-> "add", lsas |-> ta]>> ELSE <<>>)

\* C5: when a refresh_lsas whose solve produced a set returns,
\* advertized_lsa is that set, the LSAs removed are those advertized before
\* the refresh and not in that set, the LSAs added are those of that set not
\* advertized before; and when a refresh returns and no thread is left in
\* the controller the set installed at the advertiser is advertized_lsa.
C5_InstalledIsAdvertized ==
  [][\A t \in Threads : RefreshReturns(t) =>
       /\ solving[t] = "solved" =>
            /\ advertized' = returned[t]
            /\ CallArgs(calls[t], "remove") = before[t] \ returned[t]
            /\ CallArgs(calls[t], "add") = returned[t] \ before[t]
       /\ (\A u \in Threads : nb_pc'[u] = "idle") => installed' = advertized']_vars

\* C6: a refresh issues its remove call (for to_rem) before its add call
\* (for to_add), issues no call for an empty set, and issues nothing else.
C6_RemoveBeforeAdd ==
  [][\A t \in Threads : RefreshReturns(t) =>
       calls[t] = ExpectedCalls(to_add[t], to_rem[t])]_vars

\* a refresh has issued a remove call and then an add call
C6_Witness ==
  \E t \in Threads :
    /\ nb_pc[t] = "add_upd"
    /\ Len(calls[t]) = 2
    /\ calls[t][1].op = "remove"
    /\ calls[t][2].op = "add"

\* C7: after optimizer.solve raised, no step of the refresh issues a call to
\* the advertiser or changes advertized_lsa.
C7_RaiseChangesNothing ==
  [][\A t \in Threads : solving[t] = "raised" /\ nb_pc'[t] # nb_pc[t] =>
       /\ calls'[t] = <<>>
       /\ advertized' = advertized]_vars

\* the step is a step of thread t
RefreshStep(t) == nb_pc'[t] # nb_pc[t]

C8_OneSolveInFlight == Cardinality({t \in Threads : nb_pc[t] = "solve"}) <= 1

(***************************************************************************)
(* Part III - data                                                         *)
(***************************************************************************)
\* the routers of the IGP graphs handed to solve, and the metrics of links
Routers == {"r1", "r2", "r3"}
\* the routers of the larger graphs: a fourth one joins them
Routers4 == Routers \cup {"r4"}
Metrics == {1, 2}
\* the destinations of the requirements: prefixes the IGP graph does not hold
Dests == {"d", "e"}
\* self.dest: the destination the loop of solve is at
dest == fwd_dags[req_i][1]
\* names in the order Python compares strings
SortedNames == <<"d", "e", "r1", "r2", "r3", "r4">>
Names == Routers4 \cup Dests
\* merger.py:11, merger.py:12
DEFAULT_LB == 0
DEFAULT_UB == 0
\* Node.GLOBAL, Node.LOCAL and the fake type of a node without fake node
Node_GLOBAL == "global"
Node_LOCAL == "local"
NoFake == "None"
\* Merger.new_edge_metric, merger.py:71
new_edge_metric == 10000
\* sys.maxint
maxint == 2147483647
\* the Merger subclasses
Solvers == {"FullMerger", "PartialMerger", "PartialECMPMerger"}

(***************************************************************************)
(* Part III - graphs (networkx DiGraph as IGPGraph uses it)                *)
(***************************************************************************)
EmptyMap == [x \in {} |-> 0]
Put(f, k, val) == (k :> val) @@ f
Get(f, k, dflt) == IF k \in DOMAIN f THEN f[k] ELSE dflt

\* IGPGraph(): node maps a name to its properties, edge an edge to its data
EmptyIGPGraph == [node |-> EmptyMap, edge |-> EmptyMap]
NoProps == [router |-> FALSE, prefix |-> FALSE]

\* iteration of a dict or set of names
Iter(S) == SelectSeq(order, LAMBDA x : x \in S)
\* set.pop()
Pop(S) == Head(Iter(S))

successors(G, n) == {w \in DOMAIN G.node : <<n, w>> \in DOMAIN G.edge}
predecessors(G, n) == {u \in DOMAIN G.node : <<u, n>> \in DOMAIN G.edge}
out_degree(G, n) == Cardinality(successors(G, n))
in_degree(G, n) == Cardinality(predecessors(G, n))
dag_has_edge(G, u, w) == <<u, w>> \in DOMAIN G.edge

\* DiGraph.add_node(n, **attr)
add_node(G, n, attr) ==
  [G EXCEPT !.node = Put(@, n, IF n \in DOMAIN G.node
                               THEN [router |-> G.node[n].router \/ attr.router,
                                     prefix |-> G.node[n].prefix \/ attr.prefix]
                               ELSE attr)]

\* DiGraph.add_edge(u, v, **attr): the endpoints become nodes
add_edge(G, u, w, attr) ==
  LET G1 == add_node(add_node(G, u, NoProps), w, NoProps)
  IN  [G1 EXCEPT !.edge = Put(@, <<u, w>>, attr)]

\* IGPGraph.is_route, is_real_route, is_fake_route
is_route(G, w) == w \in DOMAIN G.node /\ G.node[w].prefix
is_real_route(G, u, w) == is_route(G, w) /\ ~G.edge[<<u, w>>].fake
is_fake_route(G, u, w) == is_route(G, w) /\ G.edge[<<u, w>>].fake

\* IGPGraph.add_fake_route(router, prefix, **kw)
add_fake_route(G, router, prefix, m) ==
  add_edge(add_node(G, prefix, [router |-> FALSE, prefix |-> TRUE]),
           router, prefix, [metric |-> m, fake |-> TRUE])

\* IGPGraph.routers
routers(G) == {n \in DOMAIN G.node : G.node[n].router}

\* IGPGraph.metric(u, v)
metric(G, u, w) == G.edge[<<u, w>>].metric

\* utils.find_sink
find_sink(G) == {n \in DOMAIN G.node : out_degree(G, n) = 0}

(***************************************************************************)
(* Part III - the inputs of solve                                          *)
(***************************************************************************)
Links == {l \in SUBSET Routers : Cardinality(l) = 2}
Arcs == {a \in Routers \X Routers : a[1] # a[2]}

RECURSIVE Reach(_, _)
\* the names reachable from the set S along the arcs A
Reach(A, S) ==
  LET T == S \cup {a[2] : a \in {b \in A : b[1] \in S}}
  IN  IF T = S THEN S ELSE Reach(A, T)

Connected(L) ==
  \A r \in Routers : Reach({a \in Arcs : {a[1], a[2]} \in L}, {r}) = Routers
Acyclic(A) == \A a \in A : a[1] \notin Reach(A, {a[2]})

\* Gadgets._add_edge for every link, then router = True on every node
Topology(L, m) ==
  [node |-> [n \in UNION L |-> [router |-> TRUE, prefix |-> FALSE]],
   edge |-> [a \in {b \in Arcs : {b[1], b[2]} \in L} |->
               [metric |-> m[{a[1], a[2]}], fake |-> FALSE]]]
Topologies ==
  UNION {{Topology(L, m) : m \in [L -> Metrics]} : L \in {K \in SUBSET Links : Connected(K)}}

\* IGPGraph(edges)
Requirement(A) ==
  [node |-> [n \in {a[1] : a \in A} \cup {a[2] : a \in A} |-> NoProps],
   edge |-> [a \in A |-> [metric |-> 1, fake |-> FALSE]]]
Requirements == {Requirement(A) : A \in {B \in SUBSET Arcs : Acyclic(B)}}

\* the orders in which the dicts and sets of one run iterate their names:
\* the routers in any order, then the destinations
Orders ==
  {o \in [1..Cardinality(Routers \cup Dests) -> Routers \cup Dests] :
     /\ o[Cardinality(Routers \cup Dests) - 1] = "d"
     /\ o[Cardinality(Routers \cup Dests)] = "e"
     /\ \A n \in Routers \cup Dests : \E i \in DOMAIN o : o[i] = n}

\* the requirement maps handed to solve: one destination with any DAG, or two
\* destinations, iterated in the order of their names
RequirementMaps ==
  {<<<<"d", R>>>> : R \in Requirements}
    \cup {<<<<"d", R>>, <<"e", Q>>>> : R \in Requirements, Q \in Requirements}
\* the graphs and iteration orders the maps of two destinations are solved on
UnitTopologies == {T \in Topologies : \A a \in DOMAIN T.edge : T.edge[a].metric = 1}

\* the graphs of four routers: every connected set of links, of metric 1
\* but for the links r1-r2 and r3-r4, which have any metric
Links4 == {l \in SUBSET Routers4 : Cardinality(l) = 2}
Arcs4 == {a \in Routers4 \X Routers4 : a[1] # a[2]}
ArcsOf(L) == {a \in Arcs4 : {a[1], a[2]} \in L}
HeavyLinks4 == {{"r1", "r2"}, {"r3", "r4"}}
Topology4(L, m) ==
  [node |-> [n \in UNION L |-> [router |-> TRUE, prefix |-> FALSE]],
   edge |-> [a \in ArcsOf(L) |->
               [metric |-> IF {a[1], a[2]} \in HeavyLinks4 THEN m[{a[1], a[2]}] ELSE 1,
                fake |-> FALSE]]]
LinkSets4 == {L \in SUBSET Links4 : \A r \in Routers4 : Reach(ArcsOf(L), {r}) = Routers4}
\* the requirements on a graph of four routers: the DAGs along its links in
\* which r1 has several successors
Requirements4(L) ==
  {Requirement(A) : A \in {B \in SUBSET ArcsOf(L) :
                             Acyclic(B) /\ Cardinality({a \in B : a[1] = "r1"}) > 1}}
\* the graph, the requirement map and the order of iteration of a call
Inputs4 ==
  UNION {{[igp_topo |-> Topology4(L, m), fwd_dags |-> <<<<"d", R>>>>]
           : R \in Requirements4(L), m \in [L \cap HeavyLinks4 -> Metrics]}
         : L \in LinkSets4}
    \cup {[igp_topo |-> Topology4(Links4, [l \in HeavyLinks4 |-> 1]),
            fwd_dags |-> <<<<"d", R>>, <<"e", R>>>>]
           : R \in Requirements4(Links4)}

(***************************************************************************)
(* Part III - shortest paths (igp_graph.ShortestPath, algorithms/utils.py) *)
(***************************************************************************)
\* misc/utils.py extend_paths_list
extend_paths_list(paths, n) == [i \in 1..Len(paths) |-> Append(paths[i], n)]

RECURSIVE spt_neighbours_first(_, _, _, _, _)
\* the loop over g[v].iteritems() without its branch for equal costs: the
\* first of the cheapest paths is kept
spt_neighbours_first(G, st, v, d, ws) ==
  IF ws = <<>> THEN st
  ELSE LET w == Head(ws)
           vw_dist == d + metric(G, v, w)
           seen_w == Get(st.seen, w, maxint)
           st1 == IF is_fake_route(G, v, w) THEN st
                  ELSE IF vw_dist < seen_w
                  THEN [st EXCEPT !.seen = Put(@, w, vw_dist),
                                  !.fringe = @ \cup {<<vw_dist, st.c, w>>},
                                  !.c = @ + 1,
                                  !.paths = Put(@, w, extend_paths_list(st.paths[v], w))]
                  ELSE st
       IN  spt_neighbours_first(G, st1, v, d, Tail(ws))

RECURSIVE spt_neighbours(_, _, _, _, _)
\* ShortestPath.__default_spt_for_src: the loop over g[v].iteritems(), ws is
\* what it has yet to visit.  (No metric is negative, which rules out the
\* ValueError.)
spt_neighbours(G, st, v, d, ws) ==
  IF ws = <<>> THEN st
  ELSE LET w == Head(ws)
           vw_dist == d + metric(G, v, w)
           seen_w == Get(st.seen, w, maxint)
           st1 == IF is_fake_route(G, v, w) THEN st
                  ELSE IF vw_dist < seen_w
                  THEN [st EXCEPT !.seen = Put(@, w, vw_dist),
                                  !.fringe = @ \cup {<<vw_dist, st.c, w>>},
                                  !.c = @ + 1,
                                  !.paths = Put(@, w, extend_paths_list(st.paths[v], w))]
                  ELSE IF vw_dist = seen_w
                  THEN [st EXCEPT !.paths = Put(@, w, st.paths[w] \o
                                                extend_paths_list(st.paths[v], w))]
                  ELSE st
       IN  spt_neighbours(G, st1, v, d, Tail(ws))

RECURSIVE spt_fringe(_, _)
\* ShortestPath.__default_spt_for_src: the loop that pops the fringe, a heap
\* of (distance, counter, node)
spt_fringe(G, st) ==
  IF st.fringe = {} THEN st
  ELSE LET top == CHOOSE t \in st.fringe : \A o \in st.fringe :
                    t[1] < o[1] \/ (t[1] = o[1] /\ t[2] <= o[2])
           d == top[1]
           v == top[3]
           st1 == [st EXCEPT !.fringe = @ \ {top}]
       IN  IF v \in DOMAIN st.dist THEN spt_fringe(G, st1)
           ELSE spt_fringe(G, spt_neighbours(G, [st1 EXCEPT !.dist = Put(@, v, d)],
                                             v, d, Iter(successors(G, v))))

\* ShortestPath.__default_spt_for_src
default_spt_for_src(G, source) ==
  spt_fringe(G, [dist |-> EmptyMap, paths |-> (source :> <<<<source>>>>),
                 seen |-> (source :> 0), fringe |-> {<<0, 0, source>>}, c |-> 1])

\* ShortestPath.__init__: the paths and the distances from every node
ShortestPath(G) ==
  LET spt == [n \in DOMAIN G.node |-> default_spt_for_src(G, n)]
  IN  [default_paths |-> [n \in DOMAIN G.node |-> spt[n].paths],
       default_dist  |-> [n \in DOMAIN G.node |-> spt[n].dist]]

\* ShortestPath.default_path(u, v) and default_cost(u, v); has_path tells
\* whether they raise KeyError
has_path(P, u, w) == u \in DOMAIN P.default_dist /\ w \in DOMAIN P.default_dist[u]
default_path(P, u, w) == P.default_paths[u][w]
default_cost(P, u, w) == P.default_dist[u][w]

RECURSIVE paths_via(_, _, _, _, _, _, _)
\* utils.__update_default_paths: the loop over the sources of the added edges
paths_via(P, G, d, n, added, paths, cost) ==
  IF added = <<>> THEN [paths |-> paths, cost |-> cost]
  ELSE LET s == Head(added)
       IN  IF ~has_path(P, n, s) THEN paths_via(P, G, d, n, Tail(added), paths, cost)
           ELSE LET c == default_cost(P, n, s) + metric(G, s, d)
                    p == default_path(P, n, s)
                IN  IF c < cost
                    THEN paths_via(P, G, d, n, Tail(added), extend_paths_list(p, d), c)
                    ELSE IF c = cost
                    THEN paths_via(P, G, d, n, Tail(added),
                                   paths \o extend_paths_list(p, d), cost)
                    ELSE paths_via(P, G, d, n, Tail(added), paths, cost)

\* utils.__update_default_paths (through _update_paths_towards)
update_default_paths(P, G, d, added) ==
  LET via == [n \in routers(G) |-> paths_via(P, G, d, n, added, <<>>, maxint)]
      upd == {n \in routers(G) : via[n].paths # <<>>}
  IN  [default_paths |->
         [n \in DOMAIN P.default_paths \cup {d} |->
            IF n = d THEN (d :> <<<<d>>>>)
            ELSE IF n \in upd THEN Put(P.default_paths[n], d, via[n].paths)
            ELSE P.default_paths[n]],
       default_dist |->
         [n \in DOMAIN P.default_dist \cup {d} |->
            IF n = d THEN (d :> 0)
            ELSE IF n \in upd THEN Put(P.default_dist[n], d, via[n].cost)
            ELSE P.default_dist[n]]]

\* utils._is_fake_dest
is_fake_dest(G, d) == \A p \in predecessors(G, d) : ~is_real_route(G, p, d)

RECURSIVE add_fake_routes(_, _, _, _)
add_fake_routes(G, srcs, d, m) ==
  IF srcs = <<>> THEN G
  ELSE add_fake_routes(add_fake_route(G, Head(srcs), d, m), Tail(srcs), d, m)

\* utils.add_dest_to_graph(dest, graph, edges_src, node_data_gen, metric=m):
\* the graph it leaves and the sources of the edges it added (None when it
\* adds none).  edges_src is None or the list edges_src(dest) returns;
\* node_data_gen tells whether the caller gave one.
add_dest_to_graph(d, G, edges_src, node_data_gen, m) ==
  IF d \in DOMAIN G.node /\ ~is_fake_dest(G, d)
  THEN [graph |-> IF node_data_gen
                  THEN add_node(G, d, [router |-> FALSE, prefix |-> TRUE])
                  ELSE G,
        added |-> None]
  ELSE LET added == IF edges_src = None
                    THEN SelectSeq(Iter(find_sink(G)), LAMBDA n : n # d)
                    ELSE ValueOf(edges_src)
       IN  [graph |-> add_node(add_fake_routes(G, added, d, m), d,
                               [router |-> FALSE, prefix |-> TRUE]),
            added |-> Some(added)]

\* utils.complete_dag: the loop over the edges of one path
RECURSIVE complete_along(_, _, _)
complete_along(D, p, i) ==
  IF i >= Len(p) THEN D
  ELSE LET v_in_dag == p[i + 1] \in DOMAIN D.node
           D1 == IF dag_has_edge(D, p[i], p[i + 1]) THEN add_edge(D, p[i], p[i + 1], D.edge[<<p[i], p[i + 1]>>])
                 ELSE add_edge(D, p[i], p[i + 1], [metric |-> 1, fake |-> FALSE])
       IN  IF v_in_dag THEN D1 ELSE complete_along(D1, p, i + 1)

RECURSIVE complete_paths(_, _)
complete_paths(D, ps) ==
  IF ps = <<>> THEN D ELSE complete_paths(complete_along(D, Head(ps), 1), Tail(ps))

RECURSIVE complete_nodes(_, _, _, _)
complete_nodes(D, P, d, ns) ==
  IF ns = <<>> THEN D
  ELSE complete_nodes(complete_paths(D, default_path(P, Head(ns), d)), P, d, Tail(ns))

\* the routers complete_dag visits
to_complete(D, G, skip) ==
  SelectSeq(Iter(routers(G)),
            LAMBDA r : r \notin DOMAIN D.node /\ r \notin skip /\ successors(G, r) # {})

\* utils.complete_dag(dag, graph, dest, paths, skip)
complete_dag(D, G, d, P, skip) == complete_nodes(D, P, d, to_complete(D, G, skip))

(***************************************************************************)
(* Part III - the Merger (algorithms/merger.py)                            *)
(***************************************************************************)
\* the keys of the requirements
Reqs == {fwd_dags[i][1] : i \in DOMAIN fwd_dags}

\* Node(name=n)
NewNode == [lb |-> DEFAULT_LB, ub |-> DEFAULT_UB, fake |-> NoFake,
            forced_nhs |-> {}, original_nhs |-> None]

\* Node.has_fake_node(subtype), subtype None when there is none
has_fake_node(nd, subtype) ==
  nd.forced_nhs # {} /\ (IF subtype # None THEN nd.fake = ValueOf(subtype) ELSE TRUE)

\* Node.has_any_fake_node
has_any_fake_node(nd) ==
  has_fake_node(nd, Some(Node_GLOBAL)) \/ has_fake_node(nd, Some(Node_LOCAL))

\* Node.remove_fake_node(clear_nhs=True)
remove_fake_node(nd) == [nd EXCEPT !.fake = NoFake, !.forced_nhs = {}]

\* merger.prepare_graph and the Merger that solve sets up with it
prepare_graph(G) ==
  [g |-> G, data |-> [n \in DOMAIN G.node |-> NewNode]]

\* Merger.nodes(fake_type): the names, in the order of iteration
nodes(M, fake_type) ==
  SelectSeq(Iter(DOMAIN M.g.node),
            LAMBDA n : n \notin Reqs /\ (fake_type = None \/ has_fake_node(M.data[n], fake_type)))

\* Merger.dag_include_spt
dag_include_spt(M, n, s) ==
  LET ps == default_path(M.p, n, s)
  IN  \A i \in DOMAIN ps : \A j \in 1..(Len(ps[i]) - 1) :
        dag_has_edge(M.dag, ps[i][j], ps[i][j + 1])

\* Merger.valid_range
valid_range(M, s, lb, ub) ==
  LET ub_padding == IF successors(M.dag, s) = M.data[s].original_nhs THEN 1 ELSE 0
  IN  lb + 1 < ub + ub_padding

\* Merger.check_dest: the dag and the graph get the destination, the
\* shortest paths the routes to it
check_dest(M) ==
  LET in_dag == add_dest_to_graph(dest, M.dag, None, FALSE, 1)
      in_g   == add_dest_to_graph(dest, M.g, Some(Iter(predecessors(in_dag.graph, dest))),
                                  TRUE, new_edge_metric)
  IN  [M EXCEPT !.dag = in_dag.graph,
                !.g = in_g.graph,
                !.p = IF in_g.added # None /\ ValueOf(in_g.added) # <<>>
                      THEN update_default_paths(M.p, in_g.graph, dest, ValueOf(in_g.added))
                      ELSE M.p]

\* solve, lines 97-100: the required and the original next-hops of each node
next_hop_sets(M) ==
  [M EXCEPT !.data = [n \in DOMAIN M.data |->
     [M.data[n] EXCEPT
        !.forced_nhs = successors(M.dag, n),
        !.original_nhs = LET ps == default_path(M.p, n, dest)
                         IN  {ps[i][2] : i \in DOMAIN ps}]]]

\* utils.solvable
solvable(D, G) == \A e \in DOMAIN D.edge : e \in DOMAIN G.edge

\* PartialMerger.needs_fake_node and PartialECMPMerger.needs_fake_node
needs_fake_node(cls, orig, forced) ==
  IF cls = "PartialECMPMerger"
  THEN Cardinality(forced) > 1 \/ orig # forced
  ELSE orig # forced

\* FullMerger.place_fake_nodes and PartialMerger.place_fake_nodes
place_fake_nodes(cls, M) ==
  LET penultimate_nodes == predecessors(M.dag, dest)
      placed(n) ==
        LET nd == M.data[n]
        IN  IF cls = "FullMerger"
            THEN IF n \in penultimate_nodes
                 THEN [nd EXCEPT !.fake = Node_GLOBAL,
                                 !.lb = default_cost(M.p, n, dest) - 1,
                                 !.ub = default_cost(M.p, n, dest) - 1 + 2]
                 ELSE [nd EXCEPT !.fake = Node_GLOBAL]
            ELSE IF needs_fake_node(cls, nd.original_nhs, nd.forced_nhs)
                 THEN [nd EXCEPT !.fake = Node_GLOBAL]
                 ELSE [nd EXCEPT !.forced_nhs = {}]
  IN  [M EXCEPT !.data = [n \in DOMAIN M.data |->
         IF n \in DOMAIN M.dag.node /\ out_degree(M.g, n) > 1
         THEN placed(n) ELSE M.data[n]]]

\* Merger.initialize_ecmp_deps: the nodes of the dag that do ECMP
ecmp_nodes(M) == {n \in DOMAIN M.dag.node : out_degree(M.dag, n) > 1}

\* Merger.initialize_ecmp_deps raises AttributeError at f.add(h): f is a list
ecmp_deps_raise(M) ==
  \E n \in ecmp_nodes(M) :
     /\ ~has_any_fake_node(M.data[n])
     /\ LET ps == default_path(M.p, n, dest)
        IN  \E i \in DOMAIN ps : \E j \in 1..(Len(ps[i]) - 1) :
              has_any_fake_node(M.data[ps[i][j]])

\* Merger.initialize_ecmp_deps, when it returns
initialize_ecmp_deps(M) ==
  [M EXCEPT !.ecmp = [n \in DOMAIN M.ecmp |->
     IF n \in ecmp_nodes(M) /\ has_any_fake_node(M.data[n])
     THEN M.ecmp[n] \cup {n} ELSE M.ecmp[n]]]

RECURSIVE scan_hops(_, _, _, _)
\* Merger.initial_lb_of: the loop "for n in p[:-1]"; n is the value the loop
\* leaves in its variable
scan_hops(M, node, p, i) ==
  IF i > Len(p) - 1
  THEN [is_pure |-> TRUE, node_in_spt |-> FALSE, n |-> p[Len(p) - 1]]
  ELSE IF has_fake_node(M.data[p[i]], Some(Node_GLOBAL))
  THEN [is_pure |-> FALSE, node_in_spt |-> FALSE, n |-> p[i]]
  ELSE IF node = p[i]
  THEN [is_pure |-> TRUE, node_in_spt |-> TRUE, n |-> p[i]]
  ELSE scan_hops(M, node, p, i + 1)

RECURSIVE scan_paths(_, _, _, _, _)
\* Merger.initial_lb_of: the loop "for p in nei_dest_paths"
scan_paths(M, node, ps, has_pure_path, n) ==
  IF ps = <<>>
  THEN [has_pure_path |-> has_pure_path, node_in_spt |-> FALSE, n |-> n]
  ELSE LET r == scan_hops(M, node, Head(ps), 1)
       IN  IF r.node_in_spt
           THEN [has_pure_path |-> has_pure_path, node_in_spt |-> TRUE, n |-> r.n]
           ELSE scan_paths(M, node, Tail(ps), has_pure_path \/ r.is_pure, r.n)

RECURSIVE lb_over_neighbours(_, _, _, _)
\* Merger.initial_lb_of: the loop "for nei in self.g[node]"
lb_over_neighbours(M, node, neis, lb) ==
  IF neis = <<>> THEN lb
  ELSE LET nei == Head(neis)
           skip == lb_over_neighbours(M, node, Tail(neis), lb)
       IN  IF nei \in Reqs THEN skip
           ELSE IF has_any_fake_node(M.data[nei]) THEN skip
           ELSE IF dag_has_edge(M.dag, nei, node) THEN skip
           ELSE IF default_path(M.p, nei, dest) = <<>> THEN skip
           ELSE LET sc == scan_paths(M, node, default_path(M.p, nei, dest), FALSE, nei)
                IN  IF sc.node_in_spt THEN skip
                    ELSE IF ~sc.has_pure_path THEN skip
                    ELSE LET cost == default_cost(M.p, nei, dest) - default_cost(M.p, nei, node)
                             nei_lb == IF sc.n # nei /\ dag_include_spt(M, sc.n, nei)
                                       THEN cost - 1 ELSE cost
                         IN  lb_over_neighbours(M, node, Tail(neis),
                                                IF nei_lb > lb THEN nei_lb ELSE lb)

\* Merger.initial_lb_of
initial_lb_of(M, node) ==
  lb_over_neighbours(M, node, Iter(successors(M.g, node)), DEFAULT_LB)

RECURSIVE initial_lb_visit(_, _, _)
\* Merger.compute_initial_lb: the loop "while to_visit"
initial_lb_visit(M, visited, to_visit) ==
  IF to_visit = {} THEN M
  ELSE LET node_name == Pop(to_visit)
           rest == to_visit \ {node_name}
           n == M.data[node_name]
       IN  IF node_name \in visited THEN initial_lb_visit(M, visited, rest)
           ELSE IF has_fake_node(n, Some(Node_GLOBAL))
           THEN IF n.lb # DEFAULT_LB
                THEN initial_lb_visit(M, visited \cup {node_name}, rest)
                ELSE initial_lb_visit(
                       [M EXCEPT !.data[node_name].lb = initial_lb_of(M, node_name)],
                       visited \cup {node_name}, rest)
           ELSE initial_lb_visit(M, visited \cup {node_name},
                                 rest \cup predecessors(M.g, node_name))

\* Merger.compute_initial_lb
compute_initial_lb(M) == initial_lb_visit(M, {}, predecessors(M.g, dest))

\* Merger.compute_initial_ub
compute_initial_ub(M) ==
  [M EXCEPT !.data = [n \in DOMAIN M.data |->
     IF n \notin Reqs /\ has_fake_node(M.data[n], Some(Node_GLOBAL)) /\ M.data[n].ub = DEFAULT_UB
     THEN [M.data[n] EXCEPT !.ub = default_cost(M.p, n, dest)]
     ELSE M.data[n]]]

\* IGPGraph.real_neighbors, which Merger.fake_neighbors calls and
\* misc/igp_graph.py does not define: as the documentation describes it, the
\* neighbours of n that are routers (prefix nodes are skipped)
real_neighbors(G, n) == {w \in successors(G, n) : G.node[w].router}

\* Merger.fake_neighbors: the generator resumes with the nodes it has
\* visited and those it has yet to visit, and runs to its next yield
RECURSIVE next_fake_neighbor(_, _, _)
next_fake_neighbor(M, visited, to_visit) ==
  IF to_visit = {} THEN [found |-> FALSE, visited |-> visited, to_visit |-> to_visit]
  ELSE LET n == Pop(to_visit)
           rest == to_visit \ {n}
       IN  IF n \in visited THEN next_fake_neighbor(M, visited, rest)
           ELSE IF has_fake_node(M.data[n], Some(Node_GLOBAL))
           THEN [found |-> TRUE, n |-> n, visited |-> visited \cup {n}, to_visit |-> rest]
           ELSE next_fake_neighbor(M, visited \cup {n}, rest \cup real_neighbors(M.g, n))

RECURSIVE fake_neighbors_from(_, _, _)
\* the nodes the generator yields once it has yielded nx
fake_neighbors_after(M, nx) ==
  IF nx.found
  THEN <<nx.n>> \o fake_neighbors_from(M, nx.visited, nx.to_visit)
  ELSE <<>>
fake_neighbors_from(M, visited, to_visit) ==
  fake_neighbors_after(M, next_fake_neighbor(M, visited, to_visit))

\* Merger.fake_neighbors(node), iterated to its end
fake_neighbors(M, node) == fake_neighbors_from(M, {}, real_neighbors(M.g, node))

Min(S) == CHOOSE x \in S : \A y \in S : x <= y
Max(S) == CHOOSE x \in S : \A y \in S : x >= y

\* Merger.get_delta, fn the fake neighbours of n
delta_to(M, n, fn) ==
  LET cost_to_fn == {default_cost(M.p, n, fn[i]) : i \in DOMAIN fn}
  IN  IF cost_to_fn # {} THEN M.data[n].lb - Min(cost_to_fn) ELSE -maxint
get_delta(M, n) == delta_to(M, n, fake_neighbors(M, n))

RECURSIVE fixed_nodes_stack(_, _, _)
\* Merger.fixed_nodes_for: the loop "while stack"
fixed_nodes_stack(M, fixed_nodes, stack) ==
  IF stack = <<>> THEN fixed_nodes
  ELSE LET u == stack[Len(stack)][1]
           w == stack[Len(stack)][2]
           rest == SubSeq(stack, 1, Len(stack) - 1)
           preds == Iter(predecessors(M.dag, u))
       IN  IF w \in M.data[u].forced_nhs THEN fixed_nodes_stack(M, fixed_nodes, rest)
           ELSE IF u \in fixed_nodes THEN fixed_nodes_stack(M, fixed_nodes, rest)
           ELSE fixed_nodes_stack(M, fixed_nodes \cup {u},
                                  rest \o [i \in DOMAIN preds |-> <<preds[i], u>>])

\* Merger.fixed_nodes_for
fixed_nodes_for(M, n) ==
  LET preds == Iter(predecessors(M.dag, n))
  IN  fixed_nodes_stack(M, {}, [i \in DOMAIN preds |-> <<preds[i], n>>])

\* Merger.inherit_lb
inherit_lb(M, node, from_node, fixed_neighbors) ==
  LET lb_base == M.data[from_node].lb
      lb == Max({default_cost(M.p, from_node, n) - default_cost(M.p, n, node)
                   + (IF ~dag_include_spt(M, n, node) THEN 1 ELSE 0)
                 : n \in {from_node} \cup fixed_neighbors})
  IN  lb_base + lb

\* the position of a name in Python's order of strings
NameIndex(n) == CHOOSE i \in DOMAIN SortedNames : SortedNames[i] = n

\* MaxHeap.pop: the index of the greatest (delta, node) of the heap
heap_top(pq) ==
  CHOOSE i \in DOMAIN pq : \A j \in DOMAIN pq :
     \/ pq[i][1] > pq[j][1]
     \/ pq[i][1] = pq[j][1] /\ NameIndex(pq[i][2]) >= NameIndex(pq[j][2])

Remove(sq, i) == SubSeq(sq, 1, i - 1) \o SubSeq(sq, i + 1, Len(sq))

\* apply_merge whose undo_all leaves out the upper bounds it recorded
RECURSIVE undo_all_but_ub(_, _)
undo_all_but_ub(M, undos) ==
  IF undos = <<>> THEN M
  ELSE LET u == undos[Len(undos)]
           M1 == CASE u.op = "lb" -> [M EXCEPT !.data[u.n].lb = u.val]
                   [] u.op = "ub" -> M
                   [] u.op = "forced_nhs.add" -> [M EXCEPT !.data[u.n].forced_nhs = @ \cup {u.val}]
                   [] u.op = "add_fake_node" -> [M EXCEPT !.data[u.n].fake = u.val]
                   [] u.op = "ecmp.add" -> [M EXCEPT !.ecmp[u.n] = @ \cup {u.val}]
                   [] u.op = "ecmp.remove" -> [M EXCEPT !.ecmp[u.n] = @ \ {u.val}]
       IN  undo_all_but_ub(M1, SubSeq(undos, 1, Len(undos) - 1))

\* the undo records of apply_merge, undone last first
RECURSIVE undo_all(_, _)
undo_all(M, undos) ==
  IF undos = <<>> THEN M
  ELSE LET u == undos[Len(undos)]
           M1 == CASE u.op = "lb" -> [M EXCEPT !.data[u.n].lb = u.val]
                   [] u.op = "ub" -> [M EXCEPT !.data[u.n].ub = u.val]
                   [] u.op = "forced_nhs.add" -> [M EXCEPT !.data[u.n].forced_nhs = @ \cup {u.val}]
                   [] u.op = "add_fake_node" -> [M EXCEPT !.data[u.n].fake = u.val]
                   [] u.op = "ecmp.add" -> [M EXCEPT !.ecmp[u.n] = @ \cup {u.val}]
                   [] u.op = "ecmp.remove" -> [M EXCEPT !.ecmp[u.n] = @ \ {u.val}]
       IN  undo_all(M1, SubSeq(undos, 1, Len(undos) - 1))
Undo(op, n, val) == [op |-> op, n |-> n, val |-> val]

\* the assign argument of propagate_lb: Node.increase_lb for solve,
\* propagation_assign (which records the undo) for apply_merge
assign(S, merging, n, lb) ==
  [S EXCEPT !.M.data[n].lb = @ + lb,
            !.undos = IF merging THEN Append(@, Undo("lb", n, S.M.data[n].lb)) ELSE @]

\* propagation_fail without its "return True": the propagation goes on after
\* a failure
fail_func_goes_on(S, merging, n) ==
  IF merging
  THEN [S EXCEPT !.failure = TRUE]
  ELSE [S EXCEPT !.M.data[n].fake = Node_LOCAL]

\* the fail_func argument of propagate_lb: Node.setlocal for solve (it
\* returns None, and the call on the ECMP dependencies that follows it looks
\* them up with a Node as key, which has none); propagation_fail for
\* apply_merge (it returns True, which ends the propagation)
fail_func(S, merging, n) ==
  IF merging
  THEN [S EXCEPT !.failure = TRUE, !.returned = TRUE]
  ELSE [S EXCEPT !.M.data[n].fake = Node_LOCAL]

\* pq.push((self.get_delta(n), n))
push(S, n) == [S EXCEPT !.pq = Append(@, <<get_delta(S.M, n), n>>)]

RECURSIVE propagate_ecmp(_, _, _, _, _)
\* Merger.propagate_lb: the loop over the ECMP dependencies of n, and the
\* fail_func(nei) that follows it when one of them cannot be increased
propagate_ecmp(S, merging, es, n, lb_diff) ==
  IF es = <<>> THEN S
  ELSE LET e == Head(es)
       IN  IF e = n THEN propagate_ecmp(S, merging, Tail(es), n, lb_diff)
           ELSE IF valid_range(S.M, e, S.M.data[e].lb + lb_diff, S.M.data[e].ub)
           THEN propagate_ecmp(push(assign(S, merging, e, lb_diff), e),
                               merging, Tail(es), n, lb_diff)
           ELSE fail_func(S, merging, n)

\* Merger.propagate_lb: the body of the loop over the fake neighbours
increase_lb(S, merging, node, n, lb_diff) ==
  LET nei == S.M.data[n]
  IN  IF lb_diff <= 0 THEN S
      ELSE IF <<node, n>> \in S.updates THEN fail_func(S, merging, n)
      ELSE LET S1 == [S EXCEPT !.updates = @ \cup {<<node, n>>}]
           IN  IF nei.lb + lb_diff + 1 < nei.ub
               THEN propagate_ecmp(push(assign(S1, merging, n, lb_diff), n),
                                   merging, Iter(S.M.ecmp[n]), n, lb_diff)
               ELSE fail_func(S1, merging, n)
propagate_to(S, merging, node, n, fixed_neighbors) ==
  increase_lb(S, merging, node, n,
              inherit_lb(S.M, n, node, fixed_neighbors) - S.M.data[n].lb)

RECURSIVE propagate_neighbours(_, _, _, _, _, _)
\* Merger.propagate_lb: the loop "for n, nei in self.fake_neighbors(node)"
\* the loop ends when the generator has no more node, and when fail_func
\* returned True for the last one
propagate_neighbour(S, merging, node, fixed_neighbors, nx) ==
  IF ~nx.found THEN S
  ELSE propagate_neighbours(propagate_to(S, merging, node, nx.n, fixed_neighbors),
                            merging, node, fixed_neighbors, nx.visited, nx.to_visit)
propagate_neighbours(S, merging, node, fixed_neighbors, visited, to_visit) ==
  IF S.returned THEN S
  ELSE propagate_neighbour(S, merging, node, fixed_neighbors,
                           next_fake_neighbor(S.M, visited, to_visit))

RECURSIVE propagate_queue(_, _)
\* Merger.propagate_lb: the loop "while not pq.is_empty()"
propagate_queue(S, merging) ==
  IF S.pq = <<>> \/ S.returned THEN S
  ELSE LET i == heap_top(S.pq)
           delta == S.pq[i][1]
           node == S.pq[i][2]
           S1 == [S EXCEPT !.pq = Remove(@, i)]
       IN  IF delta < get_delta(S.M, node) THEN propagate_queue(S1, merging)
           ELSE propagate_queue(
                  propagate_neighbours(S1, merging, node, fixed_nodes_for(S.M, node),
                                       {}, real_neighbors(S.M.g, node)),
                  merging)

\* Merger.propagate_lb(assign, fail_func, initial_nodes); initial_nodes is
\* the empty list for every node that has a global fake node
propagate_init(M, undos, initial_nodes) ==
  LET from == IF initial_nodes = <<>> THEN nodes(M, Some(Node_GLOBAL)) ELSE initial_nodes
  IN  [M |-> M,
       pq |-> [i \in DOMAIN from |-> <<get_delta(M, from[i]), from[i]>>],
       updates |-> {}, undos |-> undos,
       failure |-> FALSE, returned |-> FALSE]
propagate_lb(M, merging, undos, initial_nodes) ==
  propagate_queue(propagate_init(M, undos, initial_nodes), merging)

\* Merger.combine_ranges: None when the range is not valid
combine_ranges(M, n, s) ==
  LET cost == default_cost(M.p, n, s)
      new_ub == Min({M.data[n].ub - cost, M.data[s].ub})
      new_lb == Max({M.data[n].lb - cost, M.data[s].lb})
  IN  IF ~valid_range(M, s, new_lb, new_ub) THEN None
      ELSE Some([lb |-> new_lb, ub |-> new_ub])

RECURSIVE merge_ecmp_deps(_, _, _, _, _, _, _)
\* Merger.apply_merge: the loop "for e in ecmp_deps".  The outcome is
\* "done", "aborted" (the merge was undone) or "KeyError" (e_deps.remove(n)
\* found no n)
merge_ecmp_deps(M, undos, es, n, s, remove_n, path_cost_increase) ==
  IF es = <<>> THEN [out |-> "done", M |-> M, undos |-> undos]
  ELSE LET e == Head(es)
       IN  IF remove_n /\ n \notin M.ecmp[e]
           THEN [out |-> "KeyError", M |-> M, undos |-> undos]
           ELSE LET M1 == IF remove_n THEN [M EXCEPT !.ecmp[e] = @ \ {n}] ELSE M
                    u1 == IF remove_n THEN Append(undos, Undo("ecmp.add", e, n)) ELSE undos
                IN  IF remove_n /\ e = n
                    THEN merge_ecmp_deps(M1, u1, Tail(es), n, s, remove_n, path_cost_increase)
                    ELSE LET M2 == [M1 EXCEPT !.ecmp[s] = @ \cup {e}]
                             u2 == IF e \notin M1.ecmp[s]
                                   THEN Append(u1, Undo("ecmp.remove", s, e)) ELSE u1
                             M3 == [M2 EXCEPT !.ecmp[e] = @ \cup {s}]
                             u3 == IF s \notin M2.ecmp[e]
                                   THEN Append(u2, Undo("ecmp.remove", e, s)) ELSE u2
                             new_lb == M3.data[e].lb + path_cost_increase
                         IN  IF ~valid_range(M3, e, new_lb, M3.data[e].ub)
                             THEN [out |-> "aborted", M |-> undo_all(M3, u3), undos |-> <<>>]
                             ELSE merge_ecmp_deps(
                                    [M3 EXCEPT !.data[e].lb = new_lb],
                                    Append(u3, Undo("lb", e, M3.data[e].lb)),
                                    Tail(es), n, s, remove_n, path_cost_increase)

\* Merger.apply_merge: its end, S the outcome of the propagation
apply_merge_end(S) ==
  IF S.failure THEN [out |-> "aborted", M |-> undo_all(S.M, S.undos)]
  ELSE [out |-> "merged", M |-> S.M]

\* Merger.apply_merge: the propagation from ecmp_deps, r the outcome of the
\* loop over the ECMP dependencies
apply_merge_propagate(r, ecmp_deps) ==
  IF r.out # "done" THEN [out |-> r.out, M |-> r.M]
  ELSE apply_merge_end(propagate_lb(r.M, TRUE, r.undos, ecmp_deps))

\* Merger.apply_merge: the Merger it leaves, or the KeyError it raises
\* (forced_nhs.remove(nh) when nh is no longer forced, e_deps.remove(n))
apply_merge(M, n, s, lb, ub, nh) ==
  IF nh \notin M.data[n].forced_nhs THEN [out |-> "KeyError", M |-> M]
  ELSE
  LET M1 == [M EXCEPT !.data[n].forced_nhs = @ \ {nh}]
      u1 == <<Undo("forced_nhs.add", n, nh)>>
      path_cost_increase == default_cost(M.p, n, s) + M.data[s].lb - M.data[n].lb
      u2 == u1 \o <<Undo("lb", s, M1.data[s].lb), Undo("ub", s, M1.data[s].ub)>>
      M2 == [M1 EXCEPT !.data[s].lb = lb, !.data[s].ub = ub]
      ecmp_deps == Iter(M2.ecmp[n])
  IN  IF s \in M2.ecmp[n] THEN [out |-> "aborted", M |-> undo_all(M2, u2)]
      ELSE
      LET remove_n == ~has_fake_node(M2.data[n], Some(Node_GLOBAL))
          u3 == IF remove_n THEN Append(u2, Undo("add_fake_node", n, M2.data[n].fake)) ELSE u2
          M3 == IF remove_n THEN [M2 EXCEPT !.data[n] = remove_fake_node(@)] ELSE M2
      IN  apply_merge_propagate(
            merge_ecmp_deps(M3, u3, ecmp_deps, n, s, remove_n, path_cost_increase),
            Append(ecmp_deps, s))

\* Merger.merge
merge(M, n, succ, nh) ==
  IF ~dag_include_spt(M, n, succ) THEN [out |-> "skipped", M |-> M]
  ELSE LET range == combine_ranges(M, n, succ)
       IN  IF range = None THEN [out |-> "skipped", M |-> M]
           ELSE apply_merge(M, n, succ, ValueOf(range).lb, ValueOf(range).ub, nh)

RECURSIVE all_simple_paths(_, _, _, _)
\* networkx all_simple_paths: the paths to target that extend path by one of
\* children, the successors of its last node still to explore
all_simple_paths(D, path, children, target) ==
  IF children = <<>> THEN <<>>
  ELSE LET child == Head(children)
           here == IF child = target THEN <<Append(path, child)>>
                   ELSE IF \E i \in DOMAIN path : path[i] = child THEN <<>>
                   ELSE all_simple_paths(D, Append(path, child),
                                         Iter(successors(D, child)), target)
       IN  here \o all_simple_paths(D, path, Tail(children), target)

RECURSIVE paths_from(_, _, _)
paths_from(D, leaves, target) ==
  IF leaves = <<>> THEN <<>>
  ELSE all_simple_paths(D, <<Head(leaves)>>, Iter(successors(D, Head(leaves))), target)
         \o paths_from(D, Tail(leaves), target)

\* utils.dag_paths_from_leaves
dag_paths_from_leaves(D, target) ==
  paths_from(D, SelectSeq(Iter(DOMAIN D.node), LAMBDA n : in_degree(D, n) = 0), target)

RECURSIVE merge_along(_, _, _, _)
\* Merger.merge_fake_nodes: the loop over the successive fake nodes of a
\* path, R the outcome of the merges so far
merge_along(R, path, fake_nodes, idx) ==
  IF R.out = "KeyError" \/ idx >= Len(fake_nodes) THEN R
  ELSE LET n_pos == fake_nodes[idx]
           n == path[n_pos]
           succ == path[fake_nodes[idx + 1]]
       IN  IF R.M.data[n].fake = Node_GLOBAL /\ R.M.data[succ].fake = Node_GLOBAL
           THEN merge_along(merge(R.M, n, succ, path[n_pos + 1]), path, fake_nodes, idx + 1)
           ELSE merge_along(R, path, fake_nodes, idx + 1)

RECURSIVE merge_paths(_, _)
\* Merger.merge_fake_nodes: the loop over the paths of the dag
merge_paths(R, paths) ==
  IF R.out = "KeyError" \/ paths = <<>> THEN R
  ELSE LET path == Head(paths)
       IN  merge_paths(
             merge_along(R, path,
                         SelectSeq([i \in 1..(Len(path) - 1) |-> i],
                                   LAMBDA i : has_any_fake_node(R.M.data[path[i]])),
                         1),
             Tail(paths))

\* Merger.merge_fake_nodes: the Merger it leaves, out "KeyError" if a merge
\* raised one
merge_fake_nodes(M) ==
  merge_paths([out |-> "done", M |-> M], dag_paths_from_leaves(M.dag, dest))

RECURSIVE redundant_visit(_, _, _)
\* Merger.remove_redundant_fake_nodes: the loop "while to_visit"
redundant_visit(M, visited, to_visit) ==
  IF to_visit = {} THEN M
  ELSE LET n == Pop(to_visit)
           rest == to_visit \ {n}
           node == M.data[n]
       IN  IF n \in visited THEN redundant_visit(M, visited, rest)
           ELSE IF has_fake_node(node, Some(Node_GLOBAL))
           THEN LET succ == Iter(successors(M.dag, n))
                    succ_dest_cost == default_cost(M.p, succ[1], dest)
                    n_succ_cost == default_cost(M.p, n, succ[1])
                IN  IF node.lb + 1 = succ_dest_cost + n_succ_cost
                       /\ node.original_nhs = successors(M.dag, n)
                    THEN redundant_visit([M EXCEPT !.data[n] = remove_fake_node(@)],
                                         visited \cup {n}, rest)
                    ELSE redundant_visit(M, visited \cup {n}, rest)
           ELSE redundant_visit(M, visited \cup {n}, rest \cup predecessors(M.dag, n))

\* Merger.remove_redundant_fake_nodes
remove_redundant_fake_nodes(M) == redundant_visit(M, {}, predecessors(M.dag, dest))

\* utils.LSA
LSA(n, nh, cost, d) == [node |-> n, nh |-> nh, cost |-> cost, dest |-> d]

\* Merger.create_fake_lsa: the LSAs of the list it returns
create_fake_lsa(M) ==
  UNION {{LSA(n, nh, IF M.data[n].fake = Node_GLOBAL THEN M.data[n].lb + 1 ELSE -1, dest)
           : nh \in M.data[n].forced_nhs \ {dest}}
         : n \in DOMAIN M.dag.node \ {dest}}

(***************************************************************************)
(* Part III - Merger.solve, one action per statement of its loop body      *)
(***************************************************************************)
NoMerger == [g |-> EmptyIGPGraph, p |-> [default_paths |-> EmptyMap, default_dist |-> EmptyMap],
             dag |-> EmptyIGPGraph, ecmp |-> EmptyMap, data |-> EmptyMap]

InitMerger ==
  /\ solver \in Solvers
  /\ order \in Orders
  /\ igp_topo \in Topologies
  /\ fwd_dags \in RequirementMaps
  /\ Len(fwd_dags) > 1 => order = <<"r1", "r2", "r3", "d", "e">> /\ igp_topo \in UnitTopologies
  /\ req_i = 1
  /\ self = NoMerger
  /\ stage = "solve"
  /\ solve_lsa = {}

\* requirements[dest] for the i-th destination: the DAG object handed to
\* solve, as the passes over it so far have left it
requirement(i) == IF i \in DOMAIN dag_objs THEN dag_objs[i] ELSE fwd_dags[i][2]

\* the DAG objects once the pass over the i-th has written dag into it
written(i, dag) ==
  [j \in 1..Max({i, Len(dag_objs)}) |-> IF j = i THEN dag ELSE requirement(j)]

\* solve without line 90, self.ecmp.clear(), in the first pass of its loop
solve_prepare_uncleared ==
  /\ stage = "solve"
  /\ self' = [g |-> prepare_graph(igp_topo).g,
              data |-> prepare_graph(igp_topo).data,
              p |-> ShortestPath(igp_topo),
              dag |-> requirement(1),
              ecmp |-> IF call_no = 1 THEN [n \in Names |-> {}] ELSE self.ecmp]
  /\ stage' = "check_dest"
  /\ UNCHANGED <<solver, order, igp_topo, fwd_dags, req_i, solve_lsa, lsdb_vars, nb_vars, aux_vars>>

\* solve, lines 82-90: the first pass of the loop starts
solve_prepare ==
  /\ stage = "solve"
  /\ self' = [g |-> prepare_graph(igp_topo).g,
              data |-> prepare_graph(igp_topo).data,
              p |-> ShortestPath(igp_topo),
              dag |-> requirement(1),
              ecmp |-> [n \in Names |-> {}]]
  /\ stage' = "check_dest"
  /\ UNCHANGED <<solver, order, igp_topo, fwd_dags, req_i, solve_lsa, lsdb_vars, nb_vars, aux_vars>>

\* solve, line 93
solve_check_dest ==
  /\ stage = "check_dest"
  /\ self' = check_dest(self)
  /\ stage' = "complete_dag"
  /\ UNCHANGED <<solver, order, igp_topo, fwd_dags, req_i, solve_lsa, lsdb_vars, nb_vars, aux_vars>>

\* solve, lines 94-95; default_path raises KeyError for a router that has no
\* path to the destination
solve_complete_dag ==
  /\ stage = "complete_dag"
  /\ LET ns == to_complete(self.dag, self.g, Reqs)
     IN  IF \E i \in DOMAIN ns : ~has_path(self.p, ns[i], dest)
         THEN stage' = "raised" /\ UNCHANGED self
         ELSE /\ self' = [self EXCEPT !.dag = complete_dag(self.dag, self.g, dest, self.p, Reqs)]
              /\ stage' = "next_hops"
  /\ UNCHANGED <<solver, order, igp_topo, fwd_dags, req_i, solve_lsa, lsdb_vars, nb_vars, aux_vars>>

\* solve, lines 97-103, were the failed consistency check to end the loop
\* (break) instead of going to the next requirement (continue)
solve_next_hops_break ==
  /\ stage = "next_hops"
  /\ IF \E n \in DOMAIN self.g.node \ Reqs :
          n \notin DOMAIN self.dag.node \/ ~has_path(self.p, n, dest)
     THEN stage' = "raised" /\ UNCHANGED self
     ELSE /\ self' = next_hop_sets(self)
          /\ stage' = IF solvable(self.dag, self.g) THEN "place_fake_nodes" ELSE "returned"
  /\ UNCHANGED <<solver, order, igp_topo, fwd_dags, req_i, solve_lsa, lsdb_vars, nb_vars, aux_vars>>

\* solve, lines 97-103: the next-hop sets, then the consistency check
solve_next_hops ==
  /\ stage = "next_hops"
  /\ IF \E n \in DOMAIN self.g.node \ Reqs :
          n \notin DOMAIN self.dag.node \/ ~has_path(self.p, n, dest)
     THEN stage' = "raised" /\ UNCHANGED self
     ELSE /\ self' = next_hop_sets(self)
          /\ stage' = IF solvable(self.dag, self.g) THEN "place_fake_nodes" ELSE "return"
  /\ UNCHANGED <<solver, order, igp_topo, fwd_dags, req_i, solve_lsa, lsdb_vars, nb_vars, aux_vars>>

\* solve, line 105
solve_place_fake_nodes ==
  /\ stage = "place_fake_nodes"
  /\ self' = place_fake_nodes(solver, self)
  /\ stage' = "initialize_ecmp_deps"
  /\ UNCHANGED <<solver, order, igp_topo, fwd_dags, req_i, solve_lsa, lsdb_vars, nb_vars, aux_vars>>

\* solve, line 107: initialize_fake_nodes, its first call
solve_initialize_ecmp_deps ==
  /\ stage = "initialize_ecmp_deps"
  /\ IF ecmp_deps_raise(self)
     THEN stage' = "raised" /\ UNCHANGED self
     ELSE self' = initialize_ecmp_deps(self) /\ stage' = "compute_initial_lb"
  /\ UNCHANGED <<solver, order, igp_topo, fwd_dags, req_i, solve_lsa, lsdb_vars, nb_vars, aux_vars>>

\* solve, line 107: initialize_fake_nodes, its second call
solve_compute_initial_lb ==
  /\ stage = "compute_initial_lb"
  /\ self' = compute_initial_lb(self)
  /\ stage' = "compute_initial_ub"
  /\ UNCHANGED <<solver, order, igp_topo, fwd_dags, req_i, solve_lsa, lsdb_vars, nb_vars, aux_vars>>

\* solve, line 107: initialize_fake_nodes, its third call
solve_compute_initial_ub ==
  /\ stage = "compute_initial_ub"
  /\ self' = compute_initial_ub(self)
  /\ stage' = "propagate_lb"
  /\ UNCHANGED <<solver, order, igp_topo, fwd_dags, req_i, solve_lsa, lsdb_vars, nb_vars, aux_vars>>

\* solve, line 109
solve_propagate_lb ==
  /\ stage = "propagate_lb"
  /\ self' = propagate_lb(self, FALSE, <<>>, <<>>).M
  /\ stage' = "merge_fake_nodes"
  /\ UNCHANGED <<solver, order, igp_topo, fwd_dags, req_i, solve_lsa, lsdb_vars, nb_vars, aux_vars>>

\* solve, line 113
solve_merge_fake_nodes ==
  /\ stage = "merge_fake_nodes"
  /\ \E r \in {merge_fake_nodes(self)} :
        IF r.out = "KeyError"
        THEN stage' = "raised" /\ UNCHANGED self
        ELSE self' = r.M /\ stage' = "remove_redundant_fake_nodes"
  /\ UNCHANGED <<solver, order, igp_topo, fwd_dags, req_i, solve_lsa, lsdb_vars, nb_vars, aux_vars>>

\* solve, line 114
solve_remove_redundant_fake_nodes ==
  /\ stage = "remove_redundant_fake_nodes"
  /\ self' = remove_redundant_fake_nodes(self)
  /\ stage' = "create_fake_lsa"
  /\ UNCHANGED <<solver, order, igp_topo, fwd_dags, req_i, solve_lsa, lsdb_vars, nb_vars, aux_vars>>

\* solve, lines 116-119
solve_create_fake_lsa ==
  /\ stage = "create_fake_lsa"
  /\ solve_lsa' = solve_lsa \cup create_fake_lsa(self)
  /\ stage' = "return"
  /\ UNCHANGED <<solver, order, igp_topo, fwd_dags, req_i, self, lsdb_vars, nb_vars, aux_vars>>

\* solve, lines 88-90: the loop goes to the next requirement, after a continue
\* or at the end of its body.  prepare_graph gave every node one Node per
\* destination, so the next destination starts on Nodes nothing has written
solve_next_destination ==
  /\ stage = "return"
  /\ req_i < Len(fwd_dags)
  /\ req_i' = req_i + 1
  /\ self' = [self EXCEPT !.dag = requirement(req_i + 1),
                          !.ecmp = [n \in Names |-> {}],
                          !.data = prepare_graph(igp_topo).data]
  /\ stage' = "check_dest"
  /\ dag_objs' = written(req_i, self.dag)
  /\ UNCHANGED <<solver, order, igp_topo, fwd_dags, solve_lsa, lsdb_vars, nb_vars,
                 build_vars, sjmp_vars, sb_vars, cross_vars, spt_vars, more_vars, call_no, first_lsa>>

\* solve, line 120
solve_return ==
  /\ stage = "return"
  /\ req_i = Len(fwd_dags)
  /\ stage' = "returned"
  /\ dag_objs' = written(req_i, self.dag)
  /\ UNCHANGED <<solver, order, igp_topo, fwd_dags, req_i, self, solve_lsa, lsdb_vars, nb_vars,
                 build_vars, sjmp_vars, sb_vars, cross_vars, spt_vars, more_vars, call_no, first_lsa>>

\* solve(graph, requirements) called again on the Merger, with the graph and
\* the requirement dict of the call that returned
solve_again ==
  /\ stage = "returned"
  /\ call_no = 1
  /\ call_no' = 2
  /\ first_lsa' = solve_lsa
  /\ solve_lsa' = {}
  /\ req_i' = 1
  /\ stage' = "solve"
  /\ UNCHANGED <<solver, order, igp_topo, fwd_dags, self, dag_objs, lsdb_vars, nb_vars,
                 build_vars, sjmp_vars, sb_vars, cross_vars, spt_vars, more_vars>>

NextMerger ==
  \/ solve_prepare
  \/ solve_check_dest
  \/ solve_complete_dag
  \/ solve_next_hops
  \/ solve_place_fake_nodes
  \/ solve_initialize_ecmp_deps
  \/ solve_compute_initial_lb
  \/ solve_compute_initial_ub
  \/ solve_propagate_lb
  \/ solve_merge_fake_nodes
  \/ solve_remove_redundant_fake_nodes
  \/ solve_create_fake_lsa
  \/ solve_next_destination
  \/ solve_return
  \/ solve_again

\* one call of Merger.solve, the controller and the LSDB idle
InitSolve == InitLSDB /\ InitNB /\ additional_routes = {} /\ InitMerger /\ NoAux
SpecMerger == InitSolve /\ [][NextMerger]_vars

\* Merger.solve on a graph of four routers
InitMerger4 ==
  /\ solver \in Solvers
  /\ order = <<"r1", "r2", "r3", "r4", "d", "e">>
  /\ \E i \in Inputs4 : igp_topo = i.igp_topo /\ fwd_dags = i.fwd_dags
  /\ req_i = 1
  /\ self = NoMerger
  /\ stage = "solve"
  /\ solve_lsa = {}
InitSolve4 == InitLSDB /\ InitNB /\ additional_routes = {} /\ InitMerger4 /\ NoAux
SpecMerger4 == InitSolve4 /\ [][NextMerger]_vars

(***************************************************************************)
(* check_fwd_dags: the forwarding the returned LSAs produce                *)
(***************************************************************************)
\* lines 52-66: the lies of a router, by kind
fake_nodes(n) == {l \in solve_lsa : l.node = n /\ l.cost > 0}
local_fake_nodes(n) == {l.nh : l \in {x \in solve_lsa : x.node = n /\ x.cost <= 0}}

\* lines 36-48: the routers the destination is attached to
dest_sinks == predecessors(self.dag, dest)

\* lines 48, 57-59: the cost of leaving the routers at s, infinite if s has
\* neither the destination nor a ghost node attached
exit_costs(s) ==
  (IF s \in dest_sinks THEN {new_edge_metric} ELSE {}) \cup {l.cost : l \in fake_nodes(s)}

\* line 68: the distance from n to the destination in the augmented topology
spt_cost(n) ==
  LET P == ShortestPath(igp_topo)
      C == UNION {{default_cost(P, n, s) + c : c \in exit_costs(s)}
                  : s \in {x \in routers(igp_topo) : has_path(P, n, x)}}
  IN  IF C = {} THEN maxint ELSE Min(C)

\* lines 76-95: the next-hops of n, ghost nodes replaced by the next-hop they
\* stand for, everything replaced by the local lies where there are some
current_successors(n) ==
  LET via_dest == IF n \in dest_sinks /\ new_edge_metric = spt_cost(n) THEN {dest} ELSE {}
      via_fake == {l.nh : l \in {x \in fake_nodes(n) : x.cost = spt_cost(n)}}
      via_link == {w \in successors(igp_topo, n) :
                     metric(igp_topo, n, w) + spt_cost(w) = spt_cost(n)}
  IN  IF spt_cost(n) = maxint THEN {}
      ELSE IF via_fake = {} /\ local_fake_nodes(n) # {} THEN local_fake_nodes(n)
      ELSE via_dest \cup via_fake \cup via_link

\* solve returned a list of LSAs for the requirement
accepted == stage = "returned" /\ Len(fwd_dags) = 1 /\ solvable(self.dag, self.g)

\* C1: once solve has returned the LSAs of a requirement, every router of the
\* completed DAG forwards to exactly its successors in that DAG.
C1_LSAsRealiseTheDAG ==
  accepted => \A n \in DOMAIN self.dag.node \ {dest} :
                 current_successors(n) = successors(self.dag, n)

\* the requirement handed to solve for the destination the loop is at names a
\* link the IGP graph does not have
names_missing_link(i) == ~solvable(fwd_dags[i][2], igp_topo)

C24_SecondCallSameLSAs ==
  /\ call_no = 2 => stage # "raised"
  /\ call_no = 2 /\ stage = "returned" => solve_lsa = first_lsa

C24_GraphUnchanged == [][igp_topo' = igp_topo]_vars

C24_Witness ==
  /\ call_no = 2
  /\ stage = "returned"
  /\ solve_lsa # {}
  /\ dag_objs[1] # fwd_dags[1][2]
  /\ Len(fwd_dags) = 2

\* the pass over the destination has ended and the DAG required for it is
\* the DAG of the shortest paths towards it: the successors of every router
\* in the DAG are the next-hops of its default paths
RequirementIsSPT ==
  /\ stage \in {"return", "returned"}
  /\ \A n \in Routers :
       /\ n \in DOMAIN self.dag.node
       /\ has_path(self.p, n, dest)
       /\ successors(self.dag, n)
            = {default_path(self.p, n, dest)[i][2] : i \in DOMAIN default_path(self.p, n, dest)}

\* C26: when the DAG required for a destination is the DAG of the default
\* shortest paths towards it, solve returns no LSA for that destination,
\* whichever of FullMerger, PartialMerger and PartialECMPMerger runs.
C26_SPTRequirementNoLSA ==
  RequirementIsSPT => \A l \in solve_lsa : l.dest # dest

\* the DAG handed to solve for the destination of the pass has no node and
\* no edge
EmptyRequirement ==
  /\ req_i \in DOMAIN fwd_dags
  /\ DOMAIN fwd_dags[req_i][2].node = {}
  /\ DOMAIN fwd_dags[req_i][2].edge = {}

\* C27: for a destination whose requirement DAG is empty, solve raises
\* nothing and returns no LSA.
C27_EmptyRequirementNoLSA ==
  EmptyRequirement =>
    /\ stage # "raised"
    /\ \A l \in solve_lsa : l.dest # dest


\* the routers that carry a global fake node for the destination of the pass
global_fake_nodes ==
  {n \in DOMAIN self.data \ Reqs : has_fake_node(self.data[n], Some(Node_GLOBAL))}

\* the initial bounds of the pass are set, and the propagation, the merge
\* or the removal of redundant fake nodes that follows them has ended
BoundsSet ==
  stage \in {"propagate_lb", "merge_fake_nodes", "remove_redundant_fake_nodes",
             "create_fake_lsa"}

\* C31: once the initial bounds of a pass are set, and after the propagation,
\* the merge and the removal of redundant fake nodes, every router with a
\* global fake node has lb + 1 < ub, so that the cost lb + 1 of every global
\* lie the pass emits lies strictly between lb and ub.
C31_GlobalBoundsOpenInterval ==
  BoundsSet =>
    /\ \A n \in global_fake_nodes : self.data[n].lb + 1 < self.data[n].ub
    /\ stage = "create_fake_lsa" =>
         \A l \in create_fake_lsa(self) :
            self.data[l.node].fake = Node_GLOBAL =>
              self.data[l.node].lb < l.cost /\ l.cost < self.data[l.node].ub

RECURSIVE attempts_along(_, _, _, _)
\* Merger.merge_fns: the calls of merge along a path, each with the
\* Merger it was called on and its outcome r
attempt(A, n, s, nh, r) ==
  [R |-> r, log |-> Append(A.log, [M |-> A.R.M, n |-> n, s |-> s, nh |-> nh, r |-> r])]
attempts_along(A, path, fns, idx) ==
  IF A.R.out = "KeyError" \/ idx >= Len(fns) THEN A
  ELSE LET n_pos == fns[idx]
           n == path[n_pos]
           succ == path[fns[idx + 1]]
       IN  IF A.R.M.data[n].fake = Node_GLOBAL /\ A.R.M.data[succ].fake = Node_GLOBAL
           THEN attempts_along(attempt(A, n, succ, path[n_pos + 1],
                                       merge(A.R.M, n, succ, path[n_pos + 1])),
                               path, fns, idx + 1)
           ELSE attempts_along(A, path, fns, idx + 1)

RECURSIVE attempts_paths(_, _)
attempts_paths(A, paths) ==
  IF A.R.out = "KeyError" \/ paths = <<>> THEN A
  ELSE LET path == Head(paths)
       IN  attempts_paths(
             attempts_along(A, path,
                            SelectSeq([i \in 1..(Len(path) - 1) |-> i],
                                      LAMBDA i : has_any_fake_node(A.R.M.data[path[i]])),
                            1),
             Tail(paths))

\* the calls of merge that merge_fake_nodes makes on the Merger M
merge_attempts(M) ==
  attempts_paths([R |-> [out |-> "done", M |-> M], log |-> <<>>],
                 dag_paths_from_leaves(M.dag, dest)).log

\* the merges of the pass that apply_merge started and aborted
aborted_merges ==
  IF stage = "merge_fake_nodes"
  THEN {a \in {merge_attempts(self)[i] : i \in DOMAIN merge_attempts(self)} : a.r.out = "aborted"}
  ELSE {}

\* C32: when apply_merge aborts, every mutation of the attempt is rolled
\* back: the lb, ub, fake type and forced next-hops of every node and every
\* ECMP dependency set are what they were before the attempt.
C32_AbortedMergeRolledBack ==
  \A a \in aborted_merges : a.r.M.data = a.M.data /\ a.r.M.ecmp = a.M.ecmp

\* Merger.apply_merge, lines 479-531: the loop over the ECMP dependencies of
\* n, for a merge that s being one of them has not aborted
apply_merge_deps(M, n, s, lb, ub, nh) ==
  LET M1 == [M EXCEPT !.data[n].forced_nhs = @ \ {nh}]
      u1 == <<Undo("forced_nhs.add", n, nh)>>
      path_cost_increase == default_cost(M.p, n, s) + M.data[s].lb - M.data[n].lb
      u2 == u1 \o <<Undo("lb", s, M1.data[s].lb), Undo("ub", s, M1.data[s].ub)>>
      M2 == [M1 EXCEPT !.data[s].lb = lb, !.data[s].ub = ub]
      remove_n == ~has_fake_node(M2.data[n], Some(Node_GLOBAL))
      u3 == IF remove_n THEN Append(u2, Undo("add_fake_node", n, M2.data[n].fake)) ELSE u2
      M3 == IF remove_n THEN [M2 EXCEPT !.data[n] = remove_fake_node(@)] ELSE M2
  IN  merge_ecmp_deps(M3, u3, Iter(M2.ecmp[n]), n, s, remove_n, path_cost_increase)

\* why apply_merge aborted the attempt a
abort_cause(a) ==
  IF a.s \in a.M.ecmp[a.n] THEN "ecmp_dependency"
  ELSE IF apply_merge_deps(a.M, a.n, a.s, ValueOf(combine_ranges(a.M, a.n, a.s)).lb,
                           ValueOf(combine_ranges(a.M, a.n, a.s)).ub, a.nh).out = "aborted"
  THEN "ecmp_range"
  ELSE "propagation"

abort_causes == {abort_cause(a) : a \in aborted_merges}
\* a pass in which one merge was aborted because an ECMP dependent could not
\* take the cost increase and another because the propagation failed
C32_Witness ==
  /\ stage = "merge_fake_nodes"
  /\ {"ecmp_range", "propagation"} \subseteq {abort_cause(a) : a \in aborted_merges}
  /\ \A a \in aborted_merges : a.nh \in a.M.data[a.n].forced_nhs

\* the routers that do ECMP in the DAG and carry no fake node
plain_ecmp_nodes == {n \in ecmp_nodes(self) : ~has_any_fake_node(self.data[n])}

\* initialize_ecmp_deps, lines 160-166: the first router with a fake node on
\* the default path p, where there is one
first_fake_node(p) ==
  LET hs == {j \in 1..(Len(p) - 1) : has_any_fake_node(self.data[p[j]])}
  IN  IF hs = {} THEN None ELSE Some(p[Min(hs)])

\* the fake nodes downstream of n, one per default path that has one
downstream_fake_nodes(n) ==
  LET ps == default_path(self.p, n, dest)
  IN  [i \in {k \in DOMAIN ps : first_fake_node(ps[k]) # None} |-> ValueOf(first_fake_node(ps[i]))]

\* C33: initialize_ecmp_deps raises nothing; a router that does ECMP in the
\* DAG without a fake node gets a global fake node when some but not all of
\* its default paths run into a fake node, and is recorded as an ECMP
\* dependency of every fake node found when all of them do.
C33_ECMPDependenciesInitialized ==
  [][stage = "initialize_ecmp_deps" /\ stage' # stage =>
       /\ stage' # "raised"
       /\ \A n \in plain_ecmp_nodes :
            LET f == downstream_fake_nodes(n)
                paths == default_path(self.p, n, dest)
            IN  /\ DOMAIN f # {} /\ Cardinality(DOMAIN f) < Len(paths) =>
                     self'.data[n].fake = Node_GLOBAL
                /\ DOMAIN f # {} /\ Cardinality(DOMAIN f) = Len(paths) =>
                     \A i \in DOMAIN f : n \in self'.ecmp[f[i]]]_vars

\* what the step does: it returns only when no router that does ECMP without
\* a fake node has a fake node downstream, and then registers every router
\* that does ECMP with a fake node as its own dependency
ECMPDependenciesWithoutDownstream ==
  [][stage = "initialize_ecmp_deps" /\ stage' # stage =>
       /\ stage' = "raised" <=> \E n \in plain_ecmp_nodes : DOMAIN downstream_fake_nodes(n) # {}
       /\ stage' # "raised" =>
            /\ self'.data = self.data
            /\ \A n \in Names :
                 self'.ecmp[n] = IF n \in ecmp_nodes(self) \ plain_ecmp_nodes THEN {n} ELSE {}]_vars

(***************************************************************************)
(* Part IV - LSDB.build_graph on Router and AS-external LSAs               *)
(* (southbound/lsdb/lsdb.py, southbound/lsdb/lsa.py, misc/igp_graph.py)    *)
(***************************************************************************)
\* build_graph calls observed on one store
MaxBuilds == 2

\* RouterLSA.TYPE is RouterType; ASExtLSA.TYPE
ASExtType == "5"

\* router ids: two routers and one Fibbing controller, whose router id lies
\* in LSDB.BASE_NET
BuildRids == {"r1", "r2", "c1"}
InBaseNet(ip) == ip = "c1"

\* the controller number build_graph computes from an address of BASE_NET
ControllerId(ip) == 1

\* the address of the interface a router has on its point-to-point link
IfAddr(rid) == CASE rid = "r1" -> "i1" [] rid = "r2" -> "i2" [] rid = "c1" -> "j1"

\* the router at the other end of that link
Peer(rid) == CASE rid = "r1" -> "r2" [] rid = "r2" -> "r1" [] rid = "c1" -> "r1"

\* P2PLink(linkid, link_data, metric)
P2PLink(rid) == [other_routerid |-> Peer(rid), address |-> IfAddr(rid), metric |-> 1]

\* the Router LSAs parse_lsa can return for a router id: no link or its
\* point-to-point link, fresh or expired
RouterLSAsOf(rid) ==
  [type : {RouterType}, routerid : {rid}, age : {0, MAX_LS_AGE},
   links : {<<>>, <<P2PLink(rid)>>}]

\* the AS-external LSAs of prefix "p" a router id can originate: one route
\* whose forwarding address is unset (0.0.0.0) or the interface of r1
ASExtLSAsOf(rid) ==
  [type : {ASExtType}, routerid : {rid}, prefix : {"p"}, age : {0, MAX_LS_AGE},
   routes : {<<[metric |-> 1, fwd_addr |-> f]>> : f \in {"0.0.0.0", "i1"}}]

\* the routers that originate an AS-external LSA: r1, and the controller
ExtRids == {"r1", "c1"}

\* the contents LSDB._lsdb can have: per type, the stored LSAs by key
RouterMaps ==
  UNION {{f \in [D -> UNION {RouterLSAsOf(r) : r \in D}] :
            \A r \in D : f[r].routerid = r} : D \in SUBSET BuildRids}
ExtMaps ==
  UNION {{f \in [D -> UNION {ASExtLSAsOf(k[1]) : k \in D}] :
            \A k \in D : f[k].routerid = k[1]} : D \in SUBSET (ExtRids \X {"p"})}
BuildStores == [routers : RouterMaps, ext_networks : ExtMaps]

\* chain(self.routers.itervalues(), ..., self.ext_networks.itervalues());
\* no Network LSA is stored (NetworkLSA.apply does nothing)
StoredLSAs(store) ==
  [i \in 1..Cardinality(DOMAIN store.routers) |->
     store.routers[SetToSeq(DOMAIN store.routers)[i]]]
  \o [i \in 1..Cardinality(DOMAIN store.ext_networks) |->
        store.ext_networks[SetToSeq(DOMAIN store.ext_networks)[i]]]

\* self.routers.itervalues()
StoredRouterLSAs(store) ==
  [i \in 1..Cardinality(DOMAIN store.routers) |->
     store.routers[SetToSeq(DOMAIN store.routers)[i]]]

\* the store without its expired LSAs
Unexpired(store) ==
  [routers |-> [r \in {k \in DOMAIN store.routers : ~is_expired_lsa(store.routers[k])}
                  |-> store.routers[r]],
   ext_networks |-> [e \in {k \in DOMAIN store.ext_networks :
                              ~is_expired_lsa(store.ext_networks[k])}
                       |-> store.ext_networks[e]]]

\* DiGraph.add_node(n, **attr): the node properties set to True are a set
igp_add_node(G, n, props) ==
  [G EXCEPT !.node = Put(G.node, n, Get(G.node, n, {}) \cup props)]

\* DiGraph.add_edge(u, v, **attr): the endpoints become nodes, the data of
\* an edge that exists is updated
igp_add_edge(G, u, w, data) ==
  [node |-> igp_add_node(igp_add_node(G, u, {}), w, {}).node,
   edge |-> Put(G.edge, <<u, w>>, data @@ Get(G.edge, <<u, w>>, EmptyMap))]

\* IGPGraph.add_router, add_controller
igp_add_router(G, n) == igp_add_node(G, n, {"router"})
igp_add_controller(G, n) == igp_add_node(G, n, {"controller"})

\* IGPGraph.add_route
igp_add_route(G, router, prefix, data) ==
  igp_add_edge(igp_add_node(G, prefix, {"prefix"}), router, prefix, data)

\* IGPGraph.add_fake_route
igp_add_fake_route(G, router, prefix, data) ==
  igp_add_route(G, router, prefix, [fake |-> TRUE] @@ data)

\* IGPGraph.add_local_route; targets is a list already
igp_add_local_route(G, router, prefix, targets, data) ==
  igp_add_fake_route(G, router, prefix, [target |-> targets] @@ data)

RECURSIVE add_edges_from(_, _, _, _)
\* add_edges_from((into, v, data) for _, v, data in G0.edges_iter(nbunch))
add_edges_from(G, G0, into, es) ==
  IF es = <<>> THEN G
  ELSE add_edges_from(igp_add_edge(G, into, Head(es)[2], G0.edge[Head(es)]),
                      G0, into, Tail(es))

\* DiGraph.remove_nodes_from(nbunch)
remove_nodes_from(G, nbunch) ==
  [node |-> [n \in DOMAIN G.node \ nbunch |-> G.node[n]],
   edge |-> [e \in {d \in DOMAIN G.edge : d[1] \notin nbunch /\ d[2] \notin nbunch}
               |-> G.edge[e]]]

\* IGPGraph.contract(into, nbunch)
contract(G, into, nbunch) ==
  remove_nodes_from(
    add_edges_from(G, G, into, SetToSeq({e \in DOMAIN G.edge : e[1] \in nbunch})),
    nbunch)

\* P2PLink.endpoints
endpoints(link) == <<link.other_routerid>>

RECURSIVE RouterLSA_apply_links(_, _, _)
\* RouterLSA.apply, the loop over self.links
RouterLSA_apply_links(G, rid, ls) ==
  IF ls = <<>> THEN G
  ELSE RouterLSA_apply_links(
         igp_add_edge(G, rid, endpoints(Head(ls))[1],
                      [metric |-> Head(ls).metric, src_address |-> Head(ls).address]),
         rid, Tail(ls))

\* RouterLSA.apply
RouterLSA_apply(G, lsa) ==
  RouterLSA_apply_links(igp_add_router(G, lsa.routerid), lsa.routerid, lsa.links)

\* ASExtLSA.resolve_fwd_addr
resolve_fwd_addr(lsa, fwd_addr) == IF fwd_addr = "0.0.0.0" THEN lsa.routerid ELSE fwd_addr

RECURSIVE ASExtLSA_apply(_, _, _)
\* ASExtLSA.apply, the loop over self.routes (rs); with no private address
\* configured targets_for returns an empty list
ASExtLSA_apply(G, lsa, rs) ==
  IF rs = <<>> THEN G
  ELSE ASExtLSA_apply(
         IF InBaseNet(lsa.routerid)
         THEN igp_add_local_route(G, resolve_fwd_addr(lsa, Head(rs).fwd_addr),
                                  lsa.prefix, <<>>, [metric |-> Head(rs).metric])
         ELSE igp_add_route(G, resolve_fwd_addr(lsa, Head(rs).fwd_addr),
                            lsa.prefix, [metric |-> Head(rs).metric]),
         lsa, Tail(rs))

RECURSIVE apply_lsas(_, _)
\* build_graph, lines 223-231: every LSA that is not expired is applied
apply_lsas(G, ls) ==
  IF ls = <<>> THEN G
  ELSE apply_lsas(IF is_expired_lsa(Head(ls)) THEN G
                  ELSE IF Head(ls).type = RouterType THEN RouterLSA_apply(G, Head(ls))
                  ELSE ASExtLSA_apply(G, Head(ls), Head(ls).routes),
                  Tail(ls))

\* RouterLSA.contract_graph; no private address is configured
contract_graph(G, rlsa) ==
  contract(G, rlsa.routerid,
           {rlsa.links[i].address : i \in {j \in DOMAIN rlsa.links :
                                            rlsa.links[j].address # rlsa.routerid}})

RECURSIVE contract_routers(_, _)
\* build_graph, lines 233-236: contract_graph for every stored Router LSA
contract_routers(G, rs) ==
  IF rs = <<>> THEN G
  ELSE contract_routers(contract_graph(G, Head(rs)), Tail(rs))

\* build_graph, lines 240-252: the nodes of BASE_NET, by controller number
group_controllers(G) ==
  LET cids == {ControllerId(ip) : ip \in {n \in DOMAIN G.node : InBaseNet(n)}}
  IN  [c \in cids |-> SetToSeq({n \in DOMAIN G.node : InBaseNet(n) /\ ControllerId(n) = c})]

\* 'C_%s' % id
ControllerName(id) == IF id = 1 THEN "C_1" ELSE "C_0"

RECURSIVE contract_controllers(_, _, _)
\* build_graph, lines 254-257
contract_controllers(G, ctrl, ids) ==
  IF ids = <<>> THEN G
  ELSE contract_controllers(
         contract(igp_add_controller(G, ControllerName(Head(ids))),
                  ControllerName(Head(ids)),
                  {ctrl[Head(ids)][i] : i \in DOMAIN ctrl[Head(ids)]}),
         ctrl, Tail(ids))

\* build_graph, line 259
remove_selfloops(G) ==
  [G EXCEPT !.edge = [e \in {d \in DOMAIN G.edge : d[1] # d[2]} |-> G.edge[e]]]

\* IGPGraph.is_router_link
is_router_link(G, u, w) ==
  "router" \in G.node[u] /\ "router" \in G.node[w] /\ <<u, w>> \in DOMAIN G.edge

\* LSDB.apply_secondary_addresses: addresses_of(dst, src) is None when no
\* private address is configured
apply_secondary_addresses(G) ==
  [G EXCEPT !.edge = [e \in DOMAIN G.edge |->
                        IF is_router_link(G, e[1], e[2])
                        THEN [dst_address |-> "None"] @@ G.edge[e]
                        ELSE G.edge[e]]]

\* build_graph from the contraction of the controllers on
finish_build(G, ctrl) ==
  apply_secondary_addresses(
    remove_selfloops(contract_controllers(G, ctrl, SetToSeq(DOMAIN ctrl))))

\* build_graph as a whole: the graph it returns for a store
build_graph_of(store) ==
  finish_build(
    contract_routers(apply_lsas(EmptyIGPGraph, StoredLSAs(store)),
                     StoredRouterLSAs(store)),
    group_controllers(
      contract_routers(apply_lsas(EmptyIGPGraph, StoredLSAs(store)),
                       StoredRouterLSAs(store))))

(***************************************************************************)
(* Part IV - build_graph, one action per phase                             *)
(***************************************************************************)
InitBuildGraph ==
  /\ db \in BuildStores
  /\ build_pc = "start"
  /\ building = EmptyIGPGraph
  /\ controllers = EmptyMap
  /\ last_built = EmptyIGPGraph
  /\ builds_left = MaxBuilds

\* lines 220-231: controllers.clear(), a new IGPGraph, the LSAs applied
build_apply ==
  /\ build_pc \in {"start", "done"}
  /\ builds_left > 0
  /\ builds_left' = builds_left - 1
  /\ last_built' = IF build_pc = "done" THEN building ELSE last_built
  /\ controllers' = EmptyMap
  /\ building' = apply_lsas(EmptyIGPGraph, StoredLSAs(db))
  /\ build_pc' = "contract"
  /\ UNCHANGED <<db, lsdb_vars, nb_vars, merger_vars, sjmp_vars, ext_vars>>

\* lines 233-236
build_contract ==
  /\ build_pc = "contract"
  /\ building' = contract_routers(building, StoredRouterLSAs(db))
  /\ build_pc' = "controllers"
  /\ UNCHANGED <<db, controllers, last_built, builds_left, lsdb_vars, nb_vars,
                 merger_vars, sjmp_vars, ext_vars>>

\* lines 238-252
build_controllers ==
  /\ build_pc = "controllers"
  /\ controllers' = group_controllers(building)
  /\ build_pc' = "finish"
  /\ UNCHANGED <<db, building, last_built, builds_left, lsdb_vars, nb_vars,
                 merger_vars, sjmp_vars, ext_vars>>

\* lines 254-261
build_return ==
  /\ build_pc = "finish"
  /\ building' = finish_build(building, controllers)
  /\ build_pc' = "done"
  /\ UNCHANGED <<db, controllers, last_built, builds_left, lsdb_vars, nb_vars,
                 merger_vars, sjmp_vars, ext_vars>>

NextBuild ==
  \/ build_apply
  \/ build_contract
  \/ build_controllers
  \/ build_return

InitBuild ==
  InitLSDB /\ InitNB /\ additional_routes = {} /\ NoSolve /\ NoSJMP /\ NoExt /\ InitBuildGraph
SpecBuild == InitBuild /\ [][NextBuild]_vars

(***************************************************************************)
(* Part IV - IGPGraph.contract on its own                                  *)
(***************************************************************************)
\* the graphs contract is called on: the node r, the addresses a and b that
\* are contracted into it, another node x, and any of these edges, each
\* with a metric of its own
ContractEdges ==
  {<<"a", "x">>, <<"b", "x">>, <<"x", "a">>, <<"x", "b">>, <<"r", "x">>, <<"a", "b">>, <<"a", "r">>}
ContractGraph(f) ==
  [node |-> [n \in {"r"} \cup UNION {{e[1], e[2]} : e \in {d \in ContractEdges : f[d] > 0}}
               |-> IF n = "r" THEN {"router"} ELSE {}],
   edge |-> [e \in {d \in ContractEdges : f[d] > 0} |-> [metric |-> f[e]]]]
ContractGraphs == {ContractGraph(f) : f \in [ContractEdges -> {0} \cup Metrics]}

InitContractGraph ==
  /\ db = <<>>
  /\ build_pc = "contract"
  /\ building \in ContractGraphs
  /\ controllers = <<>>
  /\ last_built = EmptyIGPGraph
  /\ builds_left = 0

\* graph.contract("r", nbunch)
contract_call(nbunch) ==
  /\ build_pc = "contract"
  /\ last_built' = contract(building, "r", nbunch)
  /\ build_pc' = "contracted"
  /\ UNCHANGED <<db, building, controllers, builds_left, lsdb_vars, nb_vars, merger_vars,
                 sjmp_vars, ext_vars>>

NextContract == \E nbunch \in {{"a"}, {"a", "b"}} : contract_call(nbunch)

\* one call of contract, everything else at rest
InitContract ==
  InitLSDB /\ InitNB /\ additional_routes = {} /\ NoSolve /\ NoSJMP /\ NoExt /\ InitContractGraph
SpecContract == InitContract /\ [][NextContract]_vars

(***************************************************************************)
(* Part IV - properties                                                    *)
(***************************************************************************)
\* C12: the graph build_graph returns is the graph it returns for the store
\* without its expired LSAs (the contraction of the Router LSAs included),
\* and the call leaves the expired LSAs in the store.
C12_ExpiredContributeNothing ==
  build_pc = "done" => building = build_graph_of(Unexpired(db))

\* the stores that hold the non-expired LSAs of store and some of its
\* expired ones
SameUnexpired(store) ==
  {[routers |-> [r \in DOMAIN store.routers \ R |-> store.routers[r]],
    ext_networks |-> [e \in DOMAIN store.ext_networks \ X |-> store.ext_networks[e]]] :
     <<R, X>> \in (SUBSET {k \in DOMAIN store.routers : is_expired_lsa(store.routers[k])})
                  \X (SUBSET {k \in DOMAIN store.ext_networks :
                                is_expired_lsa(store.ext_networks[k])})}

\* C13: the graph build_graph returns depends on the non-expired LSAs of the
\* store only (stores with the same non-expired LSAs give the same graph),
\* a second call on the unchanged store returns the same graph, and no call
\* changes the store.
C13_PureFunctionOfUnexpired ==
  [][build_pc # "done" /\ build_pc' = "done" =>
       /\ db' = db
       /\ builds_left' = 0 => building' = last_built'
       /\ \A s \in SameUnexpired(db') : build_graph_of(s) = building']_vars

\* what holds of C13: a second call on the unchanged store returns the same
\* nodes, edges, node data and edge data, and no call changes the store
RebuildIsRepeatable ==
  [][/\ db' = db
     /\ build_pc # "done" /\ build_pc' = "done" /\ builds_left' = 0 =>
          building' = last_built']_vars

\* contract(into, nbunch) turned G into H: the nodes of nbunch are gone
GroupRemoved(G, H, nbunch) == DOMAIN H.node \cap nbunch = {}

\* the edges that left a node of nbunch leave into
LeavingReattached(G, H, into, nbunch) ==
  \A e \in DOMAIN G.edge : e[1] \in nbunch /\ e[2] \notin nbunch => <<into, e[2]>> \in DOMAIN H.edge

\* the edges that entered a node of nbunch enter into
EnteringReattached(G, H, into, nbunch) ==
  \A e \in DOMAIN G.edge : e[2] \in nbunch /\ e[1] \notin nbunch => <<e[1], into>> \in DOMAIN H.edge

\* edges_iter(nbunch), as contract reads it
Leaving(G, nbunch) == SetToSeq({e \in DOMAIN G.edge : e[1] \in nbunch})

\* where contracted edges fall on the same pair of endpoints, the edge has
\* the data of the first of them
FirstDataRetained(G, H, into, nbunch) ==
  \A i \in DOMAIN Leaving(G, nbunch) :
    /\ Leaving(G, nbunch)[i][2] \notin nbunch
    /\ \A j \in 1..(i - 1) : Leaving(G, nbunch)[j][2] # Leaving(G, nbunch)[i][2]
    /\ <<into, Leaving(G, nbunch)[i][2]>> \notin DOMAIN G.edge
    => H.edge[<<into, Leaving(G, nbunch)[i][2]>>] = G.edge[Leaving(G, nbunch)[i]]

\* C30: contract(into, group) removes the nodes of the group and leaves,
\* for every edge that left or that entered a node of the group, an edge
\* that leaves or enters into; contracted edges that fall on the same pair
\* of endpoints leave the data of the first of them.
C30_ContractReattachesEdges ==
  [][\A nbunch \in {{"a"}, {"a", "b"}} : contract_call(nbunch) =>
       /\ GroupRemoved(building, last_built', nbunch)
       /\ LeavingReattached(building, last_built', "r", nbunch)
       /\ EnteringReattached(building, last_built', "r", nbunch)
       /\ FirstDataRetained(building, last_built', "r", nbunch)]_vars

\* the same for the edges that leave the group only
ContractReattachesLeaving ==
  [][\A nbunch \in {{"a"}, {"a", "b"}} : contract_call(nbunch) =>
       /\ GroupRemoved(building, last_built', nbunch)
       /\ LeavingReattached(building, last_built', "r", nbunch)]_vars

(***************************************************************************)
(* Part V - SimpleJSONMessagePassing.communicate (misc/sjmp.py)            *)
(***************************************************************************)
\* lines the peer sends in one session
MaxFrames == 2
\* read timeouts (select returns no socket) in one session
MaxPings == 1

\* sjmp.py:28-39
CMD == "cmd"
CMD_ARG == "cmd_arg"
DISPLAY == "display"
EXEC == "exec"
EXCEPTION == "exception"
INFO == "info"
PING == "ping"
PONG == "pong"
RESULT == "result"

\* the keys of self.hooks
Hooks == {DISPLAY, EXEC, EXCEPTION, INFO, PING, RESULT}

\* the values of the cmd key: the hooks, and a command no hook is named after
Cmds == Hooks \cup {"unknown"}

\* the values of the cmd_arg key: a dict with every key the hook reads (for
\* exec: the name of a method of the target that returns None), an empty
\* dict, a list
CmdArgs == {"full", "empty", "list"}

\* the lines of a session: text that is not JSON, a JSON array, and the JSON
\* objects with or without the cmd and cmd_arg keys
Frames ==
  {[json |-> "invalid"], [json |-> "array"]}
    \cup [json : {"object"}, keys : {{}}]
    \cup [json : {"object"}, keys : {{CMD}}, cmd : Cmds]
    \cup [json : {"object"}, keys : {{CMD_ARG}}, cmd_arg : CmdArgs]
    \cup [json : {"object"}, keys : {{CMD, CMD_ARG}}, cmd : Cmds, cmd_arg : CmdArgs]

\* the outcome of a statement: it returns a value or raises an exception
Returns(v) == [raises |-> "no", value |-> v]
Raises(e) == [raises |-> e]

\* json.loads(line): ValueError for text that is not JSON, otherwise the
\* decoded list or dict
json_loads(line) ==
  IF line.json = "invalid" THEN Raises("ValueError")
  ELSE IF line.json = "array" THEN Returns([is_dict |-> FALSE])
  ELSE Returns([is_dict |-> TRUE,
                items |-> [k \in line.keys |-> IF k = CMD THEN line.cmd ELSE line.cmd_arg]])

\* decoded[key]: TypeError on a list, KeyError on a dict without the key
subscript(decoded, key) ==
  IF ~decoded.is_dict THEN Raises("TypeError")
  ELSE IF key \notin DOMAIN decoded.items THEN Raises("KeyError")
  ELSE Returns(decoded.items[key])

\* the hook f(cmd_arg) of a command: what it sends, and whether it returns.
\* _json_exec catches every exception and answers with _send_exception;
\* _json_exception subscripts cmd_arg and _json_display calls cmd_arg.items()
\* outside any try; _json_info, _json_ping and _json_result do not read the
\* keys of cmd_arg.
hook(cmd, cmd_arg) ==
  CASE cmd = EXEC ->
         IF cmd_arg = "full" THEN [raises |-> "no", sends |-> <<>>]
         ELSE [raises |-> "no", sends |-> <<EXCEPTION>>]
    [] cmd = PING -> [raises |-> "no", sends |-> <<PONG>>]
    [] cmd = INFO -> [raises |-> "no", sends |-> <<DISPLAY>>]
    [] cmd = RESULT -> [raises |-> "no", sends |-> <<>>]
    [] cmd = EXCEPTION ->
         IF cmd_arg = "full" THEN [raises |-> "no", sends |-> <<>>]
         ELSE IF cmd_arg = "empty" THEN [raises |-> "KeyError", sends |-> <<>>]
         ELSE [raises |-> "TypeError", sends |-> <<>>]
    [] cmd = DISPLAY ->
         IF cmd_arg = "list" THEN [raises |-> "AttributeError", sends |-> <<>>]
         ELSE [raises |-> "no", sends |-> <<>>]

\* f(decoded[CMD_ARG]) for the hook f of cmd
run_hook(cmd, cmd_arg) ==
  [raises |-> hook(cmd, cmd_arg).raises,
   ran |-> IF hook(cmd, cmd_arg).raises = "no" THEN <<cmd>> ELSE <<>>,
   sends |-> hook(cmd, cmd_arg).sends]

\* communicate, lines 92-102, for one line: ValueError of json.loads is
\* caught (continue); the loop over self.hooks evaluates decoded[CMD] for
\* its first key, and decoded[CMD_ARG] for the key that equals it
dispatch(line) ==
  IF json_loads(line).raises # "no" THEN [raises |-> "no", ran |-> <<>>, sends |-> <<>>]
  ELSE IF subscript(json_loads(line).value, CMD).raises # "no"
  THEN [raises |-> subscript(json_loads(line).value, CMD).raises, ran |-> <<>>, sends |-> <<>>]
  ELSE IF subscript(json_loads(line).value, CMD).value \notin Hooks
  THEN [raises |-> "no", ran |-> <<>>, sends |-> <<>>]
  ELSE IF subscript(json_loads(line).value, CMD_ARG).raises # "no"
  THEN [raises |-> subscript(json_loads(line).value, CMD_ARG).raises, ran |-> <<>>,
        sends |-> <<>>]
  ELSE run_hook(subscript(json_loads(line).value, CMD).value,
                subscript(json_loads(line).value, CMD_ARG).value)

\* the sessions observed: communicate has not been called yet, the peer
\* sends up to MaxFrames lines
InitSession ==
  /\ frames \in UNION {[1..n -> Frames] : n \in 0..MaxFrames}
  /\ sjmp_pc = "init"
  /\ stopped = TRUE
  /\ handled = <<>>
  /\ replies = <<>>
  /\ pings_left = MaxPings

\* communicate, line 73
communicate_start ==
  /\ sjmp_pc = "init"
  /\ sjmp_pc' = "running"
  /\ stopped' = FALSE
  /\ UNCHANGED <<frames, handled, replies, pings_left, lsdb_vars, nb_vars,
                 merger_vars, build_vars, ext_vars>>

\* one iteration of the loop whose select times out: the keepalive
communicate_timeout ==
  /\ sjmp_pc = "running"
  /\ ~stopped
  /\ pings_left > 0
  /\ pings_left' = pings_left - 1
  /\ replies' = Append(replies, PING)
  /\ UNCHANGED <<frames, sjmp_pc, stopped, handled, lsdb_vars, nb_vars,
                 merger_vars, build_vars, ext_vars>>

\* one iteration of the loop that reads a line
communicate_line ==
  /\ sjmp_pc = "running"
  /\ ~stopped
  /\ frames # <<>>
  /\ frames' = Tail(frames)
  /\ \E r \in {dispatch(Head(frames))} :
       /\ sjmp_pc' = IF r.raises = "no" THEN "running" ELSE "raised"
       /\ handled' = handled \o r.ran
       /\ replies' = replies \o r.sends
  /\ UNCHANGED <<stopped, pings_left, lsdb_vars, nb_vars, merger_vars, build_vars, ext_vars>>

\* one iteration of the loop after the peer closed the socket: next() of
\* sock_readline raises, communicate breaks out of the loop
communicate_closed ==
  /\ sjmp_pc = "running"
  /\ ~stopped
  /\ frames = <<>>
  /\ sjmp_pc' = "returned"
  /\ UNCHANGED <<frames, stopped, handled, replies, pings_left, lsdb_vars,
                 nb_vars, merger_vars, build_vars, ext_vars>>

\* one iteration of the loop whose select raises select.error (the socket
\* was closed under it): communicate breaks out of the loop, whatever the
\* peer has sent
communicate_select_error ==
  /\ sjmp_pc = "running"
  /\ ~stopped
  /\ sjmp_pc' = "returned"
  /\ UNCHANGED <<frames, stopped, handled, replies, pings_left, lsdb_vars,
                 nb_vars, merger_vars, build_vars, ext_vars>>

\* stop(), called by another thread
sjmp_stop ==
  /\ sjmp_pc = "running"
  /\ ~stopped
  /\ stopped' = TRUE
  /\ UNCHANGED <<frames, sjmp_pc, handled, replies, pings_left, lsdb_vars,
                 nb_vars, merger_vars, build_vars, ext_vars>>

\* the test of the while loop fails
communicate_return ==
  /\ sjmp_pc = "running"
  /\ stopped
  /\ sjmp_pc' = "returned"
  /\ UNCHANGED <<frames, stopped, handled, replies, pings_left, lsdb_vars,
                 nb_vars, merger_vars, build_vars, ext_vars>>

NextSJMP ==
  \/ communicate_start
  \/ communicate_timeout
  \/ communicate_line
  \/ communicate_closed
  \/ communicate_select_error
  \/ sjmp_stop
  \/ communicate_return

InitSJMP ==
  InitLSDB /\ InitNB /\ additional_routes = {} /\ NoSolve /\ NoBuild /\ NoExt /\ InitSession
SpecSJMP == InitSJMP /\ [][NextSJMP]_vars

(***************************************************************************)
(* Part V - properties                                                     *)
(***************************************************************************)
\* the line is not valid JSON, or is valid JSON that is not an object with
\* the cmd and cmd_arg keys
MalformedFrame(line) == line.json # "object" \/ line.keys # {CMD, CMD_ARG}

\* C19: a line that is not valid JSON, or is valid JSON without the cmd or
\* the cmd_arg key or of the wrong shape, is dropped (no hook runs, nothing
\* is sent) and communicate stays in its loop, where it reads the lines that
\* follow.
C19_MalformedFrameDropped ==
  [][sjmp_pc = "running" /\ frames # <<>> /\ frames' = Tail(frames)
       /\ MalformedFrame(Head(frames)) =>
         /\ sjmp_pc' = "running"
         /\ handled' = handled
         /\ replies' = replies]_vars

\* SimpleJSONMessagePassing.alive, lines 63-64
sjmp_alive == ~stopped

\* the step leaves the loop of communicate by a break: the select or the
\* read of the socket failed
transport_fails == sjmp_pc = "running" /\ ~stopped /\ sjmp_pc' = "returned"

\* C36: when communicate returns because the transport failed (select error,
\* socket no longer readable, peer gone), the session is stopped: alive()
\* is false from then on.
C36_TransportFailureStops ==
  /\ [][transport_fails => stopped']_vars
  /\ [](sjmp_pc = "returned" => ~sjmp_alive)

\* what communicate does on a transport failure: it returns and leaves
\* stopped as it is, alive() stays true
TransportFailureLeavesAlive ==
  [][transport_fails => sjmp_alive' /\ frames' = frames /\ replies' = replies]_vars


(***************************************************************************)
(* Part VI - the southbound proxy: FakeNodeProxyImplem.add / remove,       *)
(* FibbingManager.proxy_add / proxy_remove (southbound/fibbing.py) and     *)
(* LSDB.forwarding_address_of (southbound/lsdb/lsdb.py)                    *)
(***************************************************************************)
\* calls observed on one proxy
MaxCalls == 2

\* Python's None
PyNone == "None"
\* an attribute the edge does not have
Absent == [kind |-> "absent", val |-> <<>>]
\* values: None, a string, a list of strings
NoneValue == [kind |-> "None", val |-> <<>>]
StrValue(s) == [kind |-> "str", val |-> <<s>>]
ListValue(l) == [kind |-> "list", val |-> l]

\* how a call ends
Returned(v) == [out |-> "return", exc |-> "", value |-> v]
Raised(e) == [out |-> "raise", exc |-> e, value |-> NoneValue]

\* interface addresses, in the order Python compares strings
IfAddresses == <<"i1", "i2">>
\* the private addresses of a link, as the binding file lists them
PrivateLists == {<<"p1">>, <<"p2/24", "p1">>}
\* min(data) on a non-empty set of interface addresses
min_address(S) ==
  IfAddresses[CHOOSE i \in DOMAIN IfAddresses :
                /\ IfAddresses[i] \in S
                /\ \A j \in DOMAIN IfAddresses : IfAddresses[j] \in S => i <= j]

\* the graphs build_graph may have published: r1 always known, the links
\* r1->r2, r2->r1 and r2->r3 present or not; RouterLSA.apply gives a link its
\* src_address, apply_secondary_addresses gives a router link the list of
\* private addresses or None as dst_address
SBLinks == {<<"r1", "r2">>, <<"r2", "r1">>, <<"r2", "r3">>}
SBGraph(E, src21, dst12) ==
  [node |-> {"r1"} \cup {e[1] : e \in E} \cup {e[2] : e \in E},
   edge |-> [e \in E |->
              IF e = <<"r1", "r2">> THEN [src_address |-> StrValue("i1"), dst_address |-> dst12]
              ELSE IF e = <<"r2", "r1">> THEN [src_address |-> src21, dst_address |-> NoneValue]
              ELSE [src_address |-> StrValue("i1"), dst_address |-> Absent]]]
SBGraphs ==
  {SBGraph(E, s, d) : E \in SUBSET SBLinks,
                      s \in {Absent, StrValue("i2")},
                      d \in {Absent, NoneValue} \cup {ListValue(l) : l \in PrivateLists}}

\* LSDB.forwarding_address_of(src, dst); graph.successors_iter(dst) raises
\* NetworkXError, which is no KeyError, for a dst the graph does not hold
forwarding_address_of(G, src, dst) ==
  IF src # PyNone
  THEN IF <<src, dst>> \in DOMAIN G.edge /\ G.edge[<<src, dst>>].dst_address # Absent
       THEN Returned(G.edge[<<src, dst>>].dst_address)
       ELSE Returned(NoneValue)
  ELSE IF dst \notin G.node THEN Raised("NetworkXError")
  ELSE LET data == {G.edge[e].src_address.val[1] :
                      e \in {x \in DOMAIN G.edge : x[1] = dst /\ G.edge[x].src_address.kind = "str"}}
       IN  IF data # {} THEN Returned(StrValue(min_address(data)))
           ELSE Returned(NoneValue)

\* the routers and prefixes the attraction points name; rx is no router of
\* any graph
PointSources == {PyNone, "r1"}
PointFwds == {"r2", "rx"}
PointCosts == {-2, 1}
SortedPrefixes == <<"pA", "pB">>
PointPrefixes == {"pA", "pB"}
\* (source, fwd, cost, prefix) and (source, fwd, prefix)
Tuples4 == [n : {4}, src : PointSources, fwd : PointFwds, cost : PointCosts, prefix : PointPrefixes]
Tuples3 == [n : {3}, src : PointSources, fwd : PointFwds, cost : {0}, prefix : PointPrefixes]
PointTuples == Tuples4 \cup Tuples3
\* the points argument as the RPC delivers it: something that is no list, a
\* list of scalars (one tuple, flat), or a list of lists
PointArgs ==
  {[tag |-> "notlist", elems |-> <<>>], [tag |-> "lists", elems |-> <<>>]}
    \cup {[tag |-> "flat", elems |-> <<t>>] : t \in PointTuples}
    \cup {[tag |-> "lists", elems |-> <<t>>] : t \in PointTuples}
    \cup {[tag |-> "lists", elems |-> <<t, u>>] :
            t \in {x \in PointTuples : x.prefix = "pA" /\ x.fwd = "r2"},
            u \in {x \in PointTuples : x.src = "r1"}}

\* FakeNodeProxyImplem._get_point_list(points, tuple_len)
get_point_list(points, tuple_len) ==
  IF points.tag = "notlist" THEN [out |-> "raise", exc |-> "Exception", points |-> <<>>]
  ELSE IF points.elems = <<>> THEN [out |-> "raise", exc |-> "IndexError", points |-> <<>>]
  ELSE IF points.elems[1].n = tuple_len THEN [out |-> "return", exc |-> "", points |-> points.elems]
  ELSE [out |-> "raise", exc |-> "Exception", points |-> <<>>]

\* str(cost)
str(cost) == CASE cost = -2 -> "-2" [] cost = -1 -> "-1" [] cost = 0 -> "0" [] cost = 1 -> "1"
\* str(ip_interface(address).ip): the address without its prefix length
ip_of(address) == IF address = "p2/24" THEN "p2" ELSE address

RECURSIVE get_route(_, _)
\* FibbingManager._get_proxy_routes, lines 268-283: the route of one prefix,
\* a list of (fwd_addr, str(cost)), or the exception that ends the generator
get_route(G, parts) ==
  IF parts = <<>> THEN [out |-> "return", exc |-> "", route |-> <<>>]
  ELSE LET p == Head(parts)
           src == IF p.cost >= 0 THEN PyNone ELSE p.src
           fwd == forwarding_address_of(G, src, p.fwd)
           rest == get_route(G, Tail(parts))
       IN  IF fwd.out = "raise" THEN [out |-> "raise", exc |-> fwd.exc, route |-> <<>>]
           ELSE IF fwd.value.kind = "list" /\ Len(fwd.value.val) + p.cost < 0
           THEN [out |-> "raise", exc |-> "IndexError", route |-> <<>>]
           ELSE IF rest.out = "raise" THEN rest
           ELSE [rest EXCEPT !.route =
                   <<IF fwd.value.kind = "list"
                     THEN <<StrValue(fwd.value.val[Len(fwd.value.val) + p.cost + 1]), "1">>
                     ELSE <<fwd.value, str(p.cost)>>>> \o @]

\* FibbingManager.install_route(network, points, advertize) on self.routes;
\* FibbingRoute.append keys each point by AttractionPoint.address
RECURSIVE install_route(_, _, _)
install_route(routes, network, points) ==
  LET route == IF network \in DOMAIN routes THEN routes[network] ELSE <<>>
      known == (network :> route) @@ routes
  IN  IF points = <<>> THEN known
      ELSE LET addr == Head(points)[1]
               cost == Head(points)[2]
           IN  install_route(IF addr.kind = "str"
                             THEN (network :> ((ip_of(addr.val[1]) :> cost) @@ route)) @@ routes
                             ELSE known,
                             network, Tail(points))

\* FibbingManager.remove_route_part(network, advertize, *elems);
\* FibbingRoute.retract pops the address as it is given
remove_route_part(routes, network, elems) ==
  IF network \notin DOMAIN routes THEN routes
  ELSE LET gone == {elems[i].val[1] : i \in {j \in DOMAIN elems : elems[j].kind = "str"}}
           route == [a \in DOMAIN routes[network] \ gone |-> routes[network][a]]
       IN  IF DOMAIN route = {}
           THEN [n \in DOMAIN routes \ {network} |-> routes[n]]
           ELSE (network :> route) @@ routes

\* the points of one prefix, in the order sorted leaves them
parts_of(points, prefix) == SelectSeq(points, LAMBDA p : p.prefix = prefix)

RECURSIVE proxy_loop(_, _, _, _, _)
\* FibbingManager.proxy_add / proxy_remove: the loop over _get_proxy_routes,
\* prefix after prefix; an exception of the generator leaves the routes of the
\* prefixes before it changed
proxy_loop(op, G, routes, points, prefixes) ==
  IF prefixes = <<>> THEN [routes |-> routes, result |-> Returned(NoneValue)]
  ELSE IF parts_of(points, Head(prefixes)) = <<>>
  THEN proxy_loop(op, G, routes, points, Tail(prefixes))
  ELSE LET r == get_route(G, parts_of(points, Head(prefixes)))
       IN  IF r.out = "raise" THEN [routes |-> routes, result |-> Raised(r.exc)]
           ELSE proxy_loop(op, G,
                           IF op = "add"
                           THEN install_route(routes, Head(prefixes), r.route)
                           ELSE remove_route_part(routes, Head(prefixes),
                                                  [i \in DOMAIN r.route |-> r.route[i][1]]),
                           points, Tail(prefixes))

\* proxy_add / proxy_remove on the list _get_point_list let through:
\* sorted(points, key=itemgetter(3)) raises IndexError on a shorter tuple
proxy_call(op, G, routes, points) ==
  IF \E i \in DOMAIN points : points[i].n < 4
  THEN [routes |-> routes, result |-> Raised("IndexError")]
  ELSE proxy_loop(op, G, routes, points, SortedPrefixes)

\* FakeNodeProxyImplem.add / remove, as the RPC hook calls them
proxy_rpc(op, G, routes, points) ==
  LET l == get_point_list(points, 4)
  IN  IF l.out = "raise" THEN [routes |-> routes, result |-> Raised(l.exc)]
      ELSE proxy_call(op, G, routes, l.points)

InitSouthbound ==
  /\ sb_graph \in SBGraphs
  /\ fib_routes = <<>>
  /\ sb_call = [op |-> "none", points |-> [tag |-> "notlist", elems |-> <<>>],
                src |-> PyNone, dst |-> PyNone]
  /\ sb_result = Returned(NoneValue)
  /\ sb_calls_left = MaxCalls

\* FakeNodeProxyImplem.add(points)
sb_add(points) ==
  /\ sb_calls_left > 0
  /\ sb_calls_left' = sb_calls_left - 1
  /\ sb_call' = [op |-> "add", points |-> points, src |-> PyNone, dst |-> PyNone]
  /\ \E r \in {proxy_rpc("add", sb_graph, fib_routes, points)} :
        fib_routes' = r.routes /\ sb_result' = r.result
  /\ UNCHANGED <<sb_graph, lsdb_vars, nb_vars, merger_vars, build_vars, sjmp_vars, again_vars, cross_vars, spt_vars, more_vars>>

\* FakeNodeProxyImplem.remove(points)
sb_remove(points) ==
  /\ sb_calls_left > 0
  /\ sb_calls_left' = sb_calls_left - 1
  /\ sb_call' = [op |-> "remove", points |-> points, src |-> PyNone, dst |-> PyNone]
  /\ \E r \in {proxy_rpc("remove", sb_graph, fib_routes, points)} :
        fib_routes' = r.routes /\ sb_result' = r.result
  /\ UNCHANGED <<sb_graph, lsdb_vars, nb_vars, merger_vars, build_vars, sjmp_vars, again_vars, cross_vars, spt_vars, more_vars>>

\* Router.get_fwd_address(src, dst): LSDB.forwarding_address_of(src, dst)
sb_forwarding_address_of(src, dst) ==
  /\ sb_calls_left > 0
  /\ sb_calls_left' = sb_calls_left - 1
  /\ sb_call' = [op |-> "forwarding_address_of",
                 points |-> [tag |-> "notlist", elems |-> <<>>], src |-> src, dst |-> dst]
  /\ sb_result' = forwarding_address_of(sb_graph, src, dst)
  /\ UNCHANGED <<sb_graph, fib_routes, lsdb_vars, nb_vars, merger_vars, build_vars, sjmp_vars, again_vars, cross_vars, spt_vars, more_vars>>

NextSouthbound ==
  \/ \E points \in PointArgs : sb_add(points)
  \/ \E points \in PointArgs : sb_remove(points)
  \/ \E src \in {PyNone, "r1", "r2", "rx"}, dst \in {"r1", "r2", "r3", "rx"} :
       sb_forwarding_address_of(src, dst)

\* calls on one proxy, everything else at rest
InitSB ==
  InitLSDB /\ InitNB /\ additional_routes = {} /\ NoSolve /\ NoBuild /\ NoSJMP /\ NoAgain /\ NoCross /\ NoSPT /\ NoMore /\ InitSouthbound
SpecSB == InitSB /\ [][NextSouthbound]_vars

(***************************************************************************)
(* Part VI - properties                                                    *)
(***************************************************************************)
\* the last call was remove(points) with a non-empty list of 3-tuples
RemoveOfTriples ==
  /\ sb_call.op = "remove"
  /\ sb_call.points.tag = "lists"
  /\ sb_call.points.elems # <<>>
  /\ \A i \in DOMAIN sb_call.points.elems : sb_call.points.elems[i].n = 3

\* C21: a remove call whose points are 3-tuples (source, forwarding, prefix)
\* is not rejected: it returns, and none of the attraction points it names
\* is left in the routes.
C21_RemoveTakesTriples ==
  RemoveOfTriples =>
    /\ sb_result.out = "return"
    /\ \A i \in DOMAIN sb_call.points.elems :
         LET p == sb_call.points.elems[i]
             fwd == forwarding_address_of(sb_graph, p.src, p.fwd)
         IN  fwd.out = "return" /\ fwd.value.kind = "str" /\ p.prefix \in DOMAIN fib_routes =>
               fwd.value.val[1] \notin DOMAIN fib_routes[p.prefix]

\* C22: forwarding_address_of never raises; with src given it returns the
\* dst_address of the edge src->dst, with src empty the smallest src_address
\* of the edges leaving dst, and None when the node, the edge or the
\* attribute is missing.
C22_ForwardingAddressNeverRaises ==
  sb_call.op = "forwarding_address_of" =>
    /\ sb_result.out = "return"
    /\ LET G == sb_graph
           e == <<sb_call.src, sb_call.dst>>
           out == {x \in DOMAIN G.edge : x[1] = sb_call.dst /\ G.edge[x].src_address.kind = "str"}
       IN  sb_result.value =
             IF sb_call.src # PyNone
             THEN IF e \in DOMAIN G.edge /\ G.edge[e].dst_address.kind # "absent"
                  THEN G.edge[e].dst_address ELSE NoneValue
             ELSE IF out = {} THEN NoneValue
             ELSE StrValue(min_address({G.edge[x].src_address.val[1] : x \in out}))

(***************************************************************************)
(* Part VII - algorithms/cross_optimizer.py: CrossOptimizer.solve          *)
(***************************************************************************)
\* the longest list the wrapped solver returns
MaxLSAs == 3

\* the fake nodes (node, nh) and the routes (cost, dest) the LSAs are drawn from
CrossNodes == {<<"r1", "r2">>, <<"r1", "r3">>, <<"r2", "r3">>}
CrossLSAs ==
  {LSA(k[1], k[2], c, d) : k \in CrossNodes, c \in {1, 2}, d \in Dests}

\* the lists self.solver.solve may return
SolverOutputs == UNION {[1..n -> CrossLSAs] : n \in 0..MaxLSAs}

\* utils.ExtLSARoute and utils.ExtendedLSA
ExtLSARoute(d, c) == [dest |-> d, cost |-> c]
ExtendedLSA(node, nh, routes) == [node |-> node, nh |-> nh, routes |-> routes]

\* the grouping with an assignment in the place of append: a group keeps the
\* last of its routes
RECURSIVE group_lsas_assigned(_, _)
group_lsas_assigned(grouped, list) ==
  IF list = <<>> THEN grouped
  ELSE LET lsa == Head(list)
       IN  group_lsas_assigned(Put(grouped, <<lsa.node, lsa.nh>>, <<<<lsa.cost, lsa.dest>>>>),
                               Tail(list))

\* lines 17-18: grouped_lsas[(lsa.node, lsa.nh)].append((lsa.cost, lsa.dest)),
\* a defaultdict(list)
RECURSIVE group_lsas(_, _)
group_lsas(grouped, list) ==
  IF list = <<>> THEN grouped
  ELSE LET lsa == Head(list)
           k == <<lsa.node, lsa.nh>>
           dests == IF k \in DOMAIN grouped THEN grouped[k] ELSE <<>>
       IN  group_lsas(Put(grouped, k, Append(dests, <<lsa.cost, lsa.dest>>)), Tail(list))

\* lines 20-23: one ExtendedLSA per item of grouped_lsas, items being the
\* order iteritems() yields them
reduce_lsas(grouped, items) ==
  [i \in DOMAIN items |->
     ExtendedLSA(items[i][1], items[i][2],
                 [j \in DOMAIN grouped[items[i]] |->
                    ExtLSARoute(grouped[items[i]][j][2], grouped[items[i]][j][1])])]

\* the orders in which a dict may yield the keys S
ItemOrders(S) ==
  {o \in [1..Cardinality(S) -> S] : \A k \in S : \E i \in DOMAIN o : o[i] = k}

InitCrossOptimizer ==
  /\ cross_lsas \in SolverOutputs
  /\ reduced_lsas = <<>>
  /\ cross_pc = "solve"

\* CrossOptimizer.solve, lines 13-27, on the list the solver returned
cross_solve ==
  /\ cross_pc = "solve"
  /\ \E grouped \in {group_lsas(EmptyMap, cross_lsas)} :
       \E items \in ItemOrders(DOMAIN grouped) :
         reduced_lsas' = reduce_lsas(grouped, items)
  /\ cross_pc' = "returned"
  /\ UNCHANGED <<cross_lsas, lsdb_vars, nb_vars, merger_vars, build_vars, sjmp_vars,
                 sb_vars, again_vars, spt_vars, more_vars>>

NextCross == cross_solve

\* one call of CrossOptimizer.solve, everything else at rest
InitCross ==
  InitLSDB /\ InitNB /\ additional_routes = {} /\ NoSolve /\ NoBuild /\ NoSJMP
  /\ NoSouthbound /\ NoAgain /\ NoSPT /\ NoMore /\ InitCrossOptimizer
SpecCross == InitCross /\ [][NextCross]_vars

(***************************************************************************)
(* Part VII - properties                                                   *)
(***************************************************************************)
\* the (node, nh, cost, dest) records a list of ExtendedLSA stands for
RECURSIVE flatten(_)
flatten(ext) ==
  IF ext = <<>> THEN <<>>
  ELSE [j \in DOMAIN Head(ext).routes |->
          LSA(Head(ext).node, Head(ext).nh, Head(ext).routes[j].cost, Head(ext).routes[j].dest)]
       \o flatten(Tail(ext))

\* how many times x occurs in the list sq
Occurrences(sq, x) == Cardinality({i \in DOMAIN sq : sq[i] = x})

\* C25: CrossOptimizer.solve returns one ExtendedLSA for each distinct
\* (node, nh) of the solver's list and for nothing else, and the routes of
\* the returned list are the solver's LSAs, each as many times as the solver
\* returned it.
C25_GroupedByFakeNode ==
  cross_pc = "returned" =>
    /\ \A l \in CrossLSAs :
         Occurrences(flatten(reduced_lsas), l) = Occurrences(cross_lsas, l)
    /\ \A k \in CrossNodes :
         Cardinality({i \in DOMAIN reduced_lsas :
                        <<reduced_lsas[i].node, reduced_lsas[i].nh>> = k})
           = IF \E i \in DOMAIN cross_lsas : <<cross_lsas[i].node, cross_lsas[i].nh>> = k
             THEN 1 ELSE 0
    /\ \A i \in DOMAIN reduced_lsas :
         <<reduced_lsas[i].node, reduced_lsas[i].nh>> \in CrossNodes
    /\ \A x \in DOMAIN flatten(reduced_lsas) : flatten(reduced_lsas)[x] \in CrossLSAs

C25_Witness ==
  /\ cross_pc = "returned"
  /\ Len(cross_lsas) = 3
  /\ Len(reduced_lsas) = 2
  /\ cross_lsas[1] = cross_lsas[3]
  /\ cross_lsas[1].node # cross_lsas[2].node


(***************************************************************************)
(* Part VIII - misc/igp_graph.py: ShortestPath                             *)
(***************************************************************************)
\* the largest metric of a link
MaxMetric == 2

\* the graphs ShortestPath is built on: any links between the routers, each
\* with a metric of its own, and the prefix d behind any of the routers, as
\* a real or as a fake route
SPTArcs == {f \in [Arcs -> 0..MaxMetric] : TRUE}
SPTRoutes == [Routers -> {"absent", "real", "fake"}]
SPTGraph(f, rt) ==
  [node |-> [n \in Routers \cup (IF \E r \in Routers : rt[r] # "absent" THEN {"d"} ELSE {})
               |-> [router |-> n \in Routers, prefix |-> n \notin Routers]],
   edge |-> [a \in {b \in Arcs : f[b] > 0} \cup {<<r, "d">> : r \in {x \in Routers : rt[x] # "absent"}}
               |-> IF a[2] = "d" THEN [metric |-> 1, fake |-> rt[a[1]] = "fake"]
                   ELSE [metric |-> f[a], fake |-> FALSE]]]
SPTGraphs == {SPTGraph(f, rt) : f \in SPTArcs, rt \in SPTRoutes}

\* the orders in which the graph's dicts iterate
SPTOrders == {<<"r1", "r2", "r3", "d", "e">>, <<"r3", "r2", "r1", "d", "e">>}

InitShortestPath ==
  /\ spt_pc = "new"
  /\ spt_p = <<>>
  /\ spt_g \in SPTGraphs
  /\ spt_added = <<>>
  /\ spt_impl = "none"

\* ShortestPath(graph)
spt_init ==
  /\ spt_pc = "new"
  /\ spt_p' = ShortestPath(spt_g)
  /\ spt_pc' = "built"
  /\ UNCHANGED <<spt_g, spt_added, spt_impl, lsdb_vars, nb_vars, merger_vars, build_vars,
                 sjmp_vars, sb_vars, again_vars, cross_vars, more_vars>>

NextSPT == spt_init

\* one ShortestPath object: the iteration order is the only part of the
\* Merger's state it reads
InitSPT ==
  /\ InitLSDB /\ InitNB /\ additional_routes = {}
  /\ solver = "FullMerger" /\ order \in SPTOrders /\ igp_topo = [node |-> <<>>, edge |-> <<>>]
  /\ fwd_dags = <<>> /\ req_i = 0 /\ self = <<>> /\ stage = "idle" /\ solve_lsa = {}
  /\ NoBuild /\ NoSJMP /\ NoSouthbound /\ NoAgain /\ NoCross /\ NoMore /\ InitShortestPath
SpecSPT == InitSPT /\ [][NextSPT]_vars

(***************************************************************************)
(* Part VIII - the paths towards a destination added to the graph          *)
(***************************************************************************)
RECURSIVE sp_neighbours(_, _, _, _, _)
\* utils.single_source_all_sp: the loop over g[v].items()
sp_neighbours(G, st, v, d, ws) ==
  IF ws = <<>> THEN st
  ELSE LET w == Head(ws)
           vw_dist == d + metric(G, v, w)
           seen_w == Get(st.seen, w, maxint)
           st1 == IF vw_dist < seen_w
                  THEN [st EXCEPT !.seen = Put(@, w, vw_dist),
                                  !.fringe = @ \cup {<<vw_dist, w>>},
                                  !.paths = Put(@, w, extend_paths_list(st.paths[v], w))]
                  ELSE IF vw_dist = seen_w
                  THEN [st EXCEPT !.paths = Put(@, w, st.paths[w] \o
                                                extend_paths_list(st.paths[v], w))]
                  ELSE st
       IN  sp_neighbours(G, st1, v, d, Tail(ws))

RECURSIVE sp_fringe(_, _)
\* utils.single_source_all_sp: the loop that pops the fringe, a heap of
\* (distance, label)
sp_fringe(G, st) ==
  IF st.fringe = {} THEN st
  ELSE LET top == CHOOSE t \in st.fringe : \A o \in st.fringe :
                    t[1] < o[1] \/ (t[1] = o[1] /\ NameIndex(t[2]) <= NameIndex(o[2]))
           d == top[1]
           v == top[2]
           st1 == [st EXCEPT !.fringe = @ \ {top}]
       IN  IF v \in DOMAIN st.dist THEN sp_fringe(G, st1)
           ELSE sp_fringe(G, sp_neighbours(G, [st1 EXCEPT !.dist = Put(@, v, d)],
                                           v, d, Iter(successors(G, v))))

\* utils.single_source_all_sp(g, source)
single_source_all_sp(G, source) ==
  sp_fringe(G, [dist |-> EmptyMap, paths |-> (source :> <<<<source>>>>),
                seen |-> (source :> 0), fringe |-> {<<0, source>>}])

\* utils.all_shortest_paths(g): igp_paths[n] is the pair (paths, dist), kept
\* here as default_paths[n] and default_dist[n]
all_shortest_paths(G) ==
  [default_paths |-> [n \in DOMAIN G.node |-> single_source_all_sp(G, n).paths],
   default_dist  |-> [n \in DOMAIN G.node |-> single_source_all_sp(G, n).dist]]

RECURSIVE sp_paths_via(_, _, _, _, _, _)
\* ShortestPath.__update_default_paths: the loop over the sources of the
\* added edges
sp_paths_via(P, d, n, added, paths, cost) ==
  IF added = <<>> THEN [paths |-> paths, cost |-> cost]
  ELSE LET s == Head(added)
       IN  IF ~has_path(P, n, s) THEN sp_paths_via(P, d, n, Tail(added), paths, cost)
           ELSE LET c == default_cost(P, n, s)
                    p == default_path(P, n, s)
                IN  IF c < cost
                    THEN sp_paths_via(P, d, n, Tail(added), extend_paths_list(p, d), c)
                    ELSE IF c = cost
                    THEN sp_paths_via(P, d, n, Tail(added),
                                      paths \o extend_paths_list(p, d), cost)
                    ELSE sp_paths_via(P, d, n, Tail(added), paths, cost)

\* ShortestPath.__update_default_paths (through update_paths_towards); the
\* entry of dest is a list of paths where every other entry is a dict
sp_update_default_paths(P, G, d, added) ==
  LET ns == DOMAIN G.node \ {d}
      via == [n \in ns |-> sp_paths_via(P, d, n, added, <<>>, maxint)]
      upd == {n \in ns : via[n].paths # <<>>}
  IN  [default_paths |->
         [n \in DOMAIN P.default_paths \cup {d} |->
            IF n = d THEN <<<<d>>>>
            ELSE IF n \in upd THEN Put(P.default_paths[n], d, via[n].paths)
            ELSE P.default_paths[n]],
       default_dist |->
         [n \in DOMAIN P.default_dist \cup {d} |->
            IF n = d THEN (d :> 0)
            ELSE IF n \in upd THEN Put(P.default_dist[n], d, via[n].cost)
            ELSE P.default_dist[n]]]

RECURSIVE simple_paths_via(_, _, _, _, _, _)
\* OSPFSimple.solve, lines 87-96: the loop over the sinks, whose second test
\* is an if where the others have an elif
simple_paths_via(P, d, n, sinks, paths, cost) ==
  IF sinks = <<>> THEN [paths |-> paths, cost |-> cost]
  ELSE LET s == Head(sinks)
       IN  IF s \notin DOMAIN P.default_paths[n]
           THEN simple_paths_via(P, d, n, Tail(sinks), paths, cost)
           ELSE LET c == P.default_dist[n][s]
                    p == P.default_paths[n][s]
                    paths1 == IF c < cost THEN extend_paths_list(p, d) ELSE paths
                    cost1 == IF c < cost THEN c ELSE cost
                IN  simple_paths_via(P, d, n, Tail(sinks),
                                     IF c = cost1 THEN paths1 \o extend_paths_list(p, d)
                                     ELSE paths1,
                                     cost1)

\* OSPFSimple.solve, lines 81-99: the entry of dest is the pair ([[dest]], 0)
simple_update_paths(P, G, d, sinks) ==
  LET ns == DOMAIN G.node \ {d}
      via == [n \in ns |-> simple_paths_via(P, d, n, sinks, <<>>, maxint)]
      upd == {n \in ns : via[n].paths # <<>>}
  IN  [default_paths |->
         [n \in DOMAIN P.default_paths \cup {d} |->
            IF n = d THEN <<<<d>>>>
            ELSE IF n \in upd THEN Put(P.default_paths[n], d, via[n].paths)
            ELSE P.default_paths[n]],
       default_dist |->
         [n \in DOMAIN P.default_dist \cup {d} |->
            IF n = d THEN 0
            ELSE IF n \in upd THEN Put(P.default_dist[n], d, via[n].cost)
            ELSE P.default_dist[n]]]

RECURSIVE add_edges_to(_, _, _, _)
\* graph.add_edges_from((s, dest) for s in added, **kw), and
\* topo.add_edge(s, dest, weight=...) for s in sinks
add_edges_to(G, srcs, d, attr) ==
  IF srcs = <<>> THEN G
  ELSE add_edges_to(add_edge(G, Head(srcs), d, attr), Tail(srcs), d, attr)

\* the graphs a destination is added to: any links between the routers
UpdateGraphs == {SPTGraph(f, [r \in Routers |-> "absent"]) : f \in SPTArcs}

\* the sources of the edges towards the destination, in the order given
AddedLists ==
  {sq \in UNION {[1..n -> Routers] : n \in 1..Cardinality(Routers)} :
     \A i, j \in DOMAIN sq : i # j => sq[i] # sq[j]}

InitUpdate ==
  /\ spt_pc = "new"
  /\ spt_p = <<>>
  /\ spt_g \in UpdateGraphs
  /\ spt_added = <<>>
  /\ spt_impl \in {"ShortestPath", "OSPFSimple"}

\* ShortestPath(graph) in Merger.solve, all_shortest_paths(graph) in
\* OSPFSimple.solve
spt_build ==
  /\ spt_pc = "new"
  /\ spt_p' = IF spt_impl = "OSPFSimple" THEN all_shortest_paths(spt_g)
              ELSE ShortestPath(spt_g)
  /\ spt_pc' = "built"
  /\ UNCHANGED <<spt_g, spt_added, spt_impl, lsdb_vars, nb_vars, merger_vars, build_vars,
                 sjmp_vars, sb_vars, again_vars, cross_vars, more_vars>>

\* utils.add_dest_to_graph(dest, graph, edges_src, spt, metric=m), as
\* Merger.check_dest calls it
spt_utils_add_dest(added, m) ==
  /\ spt_pc = "built"
  /\ spt_impl = "ShortestPath"
  /\ \E r \in {add_dest_to_graph("e", spt_g, Some(added), TRUE, m)} :
       /\ spt_g' = r.graph
       /\ spt_p' = update_default_paths(spt_p, r.graph, "e", added)
  /\ spt_added' = added
  /\ spt_impl' = "utils.add_dest_to_graph"
  /\ spt_pc' = "updated"
  /\ UNCHANGED <<lsdb_vars, nb_vars, merger_vars, build_vars, sjmp_vars, sb_vars,
                 again_vars, cross_vars, more_vars>>

\* igp_graph.add_dest_to_graph(dest, graph, edges_src, spt, metric=m)
spt_igp_add_dest(added, m) ==
  /\ spt_pc = "built"
  /\ spt_impl = "ShortestPath"
  /\ \E g \in {add_node(add_edges_to(spt_g, added, "e", [metric |-> m, fake |-> FALSE]),
                         "e", [router |-> FALSE, prefix |-> TRUE])} :
       /\ spt_g' = g
       /\ spt_p' = sp_update_default_paths(spt_p, g, "e", added)
  /\ spt_added' = added
  /\ spt_impl' = "igp_graph.add_dest_to_graph"
  /\ spt_pc' = "updated"
  /\ UNCHANGED <<lsdb_vars, nb_vars, merger_vars, build_vars, sjmp_vars, sb_vars,
                 again_vars, cross_vars, more_vars>>

\* OSPFSimple.solve, lines 75-99, for a destination that is not in topo;
\* sinks is dag.predecessors(dest).  The edges get a weight and no metric:
\* their metric is the default of IGPGraph.metric, 1.
spt_simple_add_dest(sinks) ==
  /\ spt_pc = "built"
  /\ spt_impl = "OSPFSimple"
  /\ \E g \in {add_edges_to(spt_g, sinks, "e", [metric |-> 1, fake |-> FALSE])} :
       /\ spt_g' = g
       /\ spt_p' = simple_update_paths(spt_p, g, "e", sinks)
  /\ spt_added' = sinks
  /\ spt_impl' = "OSPFSimple.solve"
  /\ spt_pc' = "updated"
  /\ UNCHANGED <<lsdb_vars, nb_vars, merger_vars, build_vars, sjmp_vars, sb_vars,
                 again_vars, cross_vars, more_vars>>

NextUpdate ==
  \/ spt_build
  \/ \E added \in AddedLists, m \in {1, new_edge_metric} : spt_utils_add_dest(added, m)
  \/ \E added \in AddedLists, m \in {1, new_edge_metric} : spt_igp_add_dest(added, m)
  \/ \E sinks \in AddedLists : spt_simple_add_dest(sinks)

\* a destination added to one graph and its tables
InitSPTUpdate ==
  /\ InitLSDB /\ InitNB /\ additional_routes = {}
  /\ solver = "FullMerger" /\ order \in SPTOrders /\ igp_topo = [node |-> <<>>, edge |-> <<>>]
  /\ fwd_dags = <<>> /\ req_i = 0 /\ self = <<>> /\ stage = "idle" /\ solve_lsa = {}
  /\ NoBuild /\ NoSJMP /\ NoSouthbound /\ NoAgain /\ NoCross /\ NoMore /\ InitUpdate
SpecSPTUpdate == InitSPTUpdate /\ [][NextUpdate]_vars

(***************************************************************************)
(* Part VIII - properties                                                  *)
(***************************************************************************)
\* the edges of G that are no fake route
RealEdges(G) == {a \in DOMAIN G.edge : ~is_fake_route(G, a[1], a[2])}

RECURSIVE WalksFrom(_, _)
\* the paths without a repeated node that extend the path p over real edges
WalksFrom(G, p) ==
  {p} \cup UNION {WalksFrom(G, Append(p, a[2])) :
                   a \in {b \in RealEdges(G) : b[1] = p[Len(p)]
                                              /\ \A i \in DOMAIN p : p[i] # b[2]}}

RECURSIVE PathCost(_, _)
PathCost(G, p) ==
  IF Len(p) < 2 THEN 0 ELSE metric(G, p[1], p[2]) + PathCost(G, Tail(p))

\* among the paths ps, those that end at w, and the cheapest of a set of paths
PathsTo(ps, w) == {p \in ps : p[Len(p)] = w}
Cheapest(G, ps) == {p \in ps : \A q \in ps : PathCost(G, p) <= PathCost(G, q)}

\* the tables P hold, from u, the cheapest paths over the real edges of G
\* towards every node they reach, each once, and their cost
ShortestFrom(P, G, u) ==
  \E walks \in {WalksFrom(G, <<u>>)} :
    /\ DOMAIN P.default_dist[u] = {p[Len(p)] : p \in walks}
    /\ DOMAIN P.default_paths[u] = {p[Len(p)] : p \in walks}
    /\ \A w \in DOMAIN P.default_dist[u] :
         \E best \in {Cheapest(G, PathsTo(walks, w))} :
           /\ \A p \in best : default_cost(P, u, w) = PathCost(G, p)
           /\ {default_path(P, u, w)[i] : i \in DOMAIN default_path(P, u, w)} = best
           /\ Len(default_path(P, u, w)) = Cardinality(best)

\* C28: on a graph of positive metrics, ShortestPath stores from every node
\* u and for every node v that u reaches over edges that are no fake route
\* the least cost of a path as default_cost(u, v) and every path of that
\* cost, once, and no other path, as default_path(u, v); no stored path
\* takes a fake route.
C28_AllShortestPaths ==
  spt_pc = "built" => \A u \in DOMAIN spt_g.node : ShortestFrom(spt_p, spt_g, u)

C28_Witness ==
  /\ spt_pc = "built"
  /\ has_path(spt_p, "r1", "r3") /\ Len(default_path(spt_p, "r1", "r3")) = 2
  /\ has_path(spt_p, "r1", "d")
  /\ <<"r2", "d">> \in DOMAIN spt_g.edge /\ is_fake_route(spt_g, "r2", "d")
  /\ <<"r3", "d">> \in DOMAIN spt_g.edge /\ ~is_fake_route(spt_g, "r3", "d")
  /\ default_cost(spt_p, "r1", "d") = 3
  /\ Len(default_path(spt_p, "r1", "d")) = 2

\* the sources of the added edges that n has a path to, and the least cost
\* of a path from n to the destination through one of them
ReachedSinks(n) == {spt_added[i] : i \in {j \in DOMAIN spt_added : spt_added[j] \in DOMAIN spt_p.default_dist[n]}}
CostVia(n, s) == spt_p.default_dist[n][s] + metric(spt_g, s, "e")
BestSinks(n) == {s \in ReachedSinks(n) : \A t \in ReachedSinks(n) : CostVia(n, s) <= CostVia(n, t)}

\* the tables hold for n the cheapest paths towards the added destination
UpdatedFor(n) ==
  /\ "e" \in DOMAIN spt_p.default_dist[n]
  /\ "e" \in DOMAIN spt_p.default_paths[n]
  /\ \A s \in BestSinks(n) : spt_p.default_dist[n]["e"] = CostVia(n, s)
  /\ {spt_p.default_paths[n]["e"][i] : i \in DOMAIN spt_p.default_paths[n]["e"]}
       = UNION {{Append(spt_p.default_paths[n][s][i], "e") : i \in DOMAIN spt_p.default_paths[n][s]}
                : s \in BestSinks(n)}

\* C29: once the destination is attached to the sinks S and the tables are
\* updated, every router n with a path to a sink has
\* default_cost(n, d) = min over S of default_cost(n, s) + metric(s, d) and
\* default_path(n, d) holds the paths p + [d], p in default_path(n, s), of
\* the sinks that reach this minimum and no other; d is the last node only
\* of the paths stored for the routers.
C29_PathsTowardsNewDestination ==
  spt_pc = "updated" =>
    \A n \in Routers :
      /\ ReachedSinks(n) # {} => UpdatedFor(n)
      /\ \A w \in DOMAIN spt_p.default_paths[n] :
           \A i \in DOMAIN spt_p.default_paths[n][w] :
             \A k \in 1..(Len(spt_p.default_paths[n][w][i]) - 1) :
               spt_p.default_paths[n][w][i][k] # "e"

\* the same with the function Merger.check_dest calls
PathsTowardsNewDestinationByUtils ==
  spt_impl = "utils.add_dest_to_graph" => C29_PathsTowardsNewDestination

(***************************************************************************)
(* Part IX - algorithms/merger.py: Merger.propagate_lb, one action per     *)
(* pass of its while loop and one per pass of its for loop                 *)
(***************************************************************************)
\* solve, line 109: propagate_lb() is called, lines 284-288
propagate_call ==
  /\ stage = "propagate_lb"
  /\ prop_pc = "none"
  /\ prop_S' = propagate_init(self, <<>>, <<>>)
  /\ prop_it' = [merging |-> FALSE, loops |-> 0]
  /\ prop_pc' = "pop"
  /\ UNCHANGED <<lsdb_vars, nb_vars, merger_vars, build_vars, sjmp_vars, sb_vars,
                 again_vars, cross_vars, spt_vars, late_vars>>

\* the merges of merge_fake_nodes in which apply_merge reaches line 535
propagating_merges ==
  {a \in {merge_attempts(self)[i] : i \in DOMAIN merge_attempts(self)} :
     /\ a.r.out \in {"merged", "aborted"}
     /\ a.s \notin a.M.ecmp[a.n]
     /\ apply_merge_deps(a.M, a.n, a.s, ValueOf(combine_ranges(a.M, a.n, a.s)).lb,
                         ValueOf(combine_ranges(a.M, a.n, a.s)).ub, a.nh).out = "done"}

\* apply_merge, lines 533-537: propagate_lb(assign=propagation_assign,
\* fail_func=propagation_fail, initial_nodes=ecmp_deps) is called in one of
\* the merges of merge_fake_nodes
merge_propagate_call ==
  /\ stage = "merge_fake_nodes"
  /\ prop_pc = "returned"
  /\ \E a \in propagating_merges :
       \E r \in {apply_merge_deps(a.M, a.n, a.s, ValueOf(combine_ranges(a.M, a.n, a.s)).lb,
                                  ValueOf(combine_ranges(a.M, a.n, a.s)).ub, a.nh)} :
          /\ prop_S' = propagate_init(r.M, r.undos, Append(Iter(a.M.ecmp[a.n]), a.s))
          /\ prop_it' = [merging |-> TRUE, loops |-> 0, attempt |-> a]
  /\ prop_pc' = "pop"
  /\ UNCHANGED <<lsdb_vars, nb_vars, merger_vars, build_vars, sjmp_vars, sb_vars,
                 again_vars, cross_vars, spt_vars, late_vars>>

\* lines 289-298: the while loop pops the node with the greatest delta, and
\* ignores it if its delta has grown since it was pushed
propagate_pop ==
  /\ prop_pc = "pop"
  /\ prop_S.pq # <<>>
  /\ ~prop_S.returned
  /\ \E i \in {heap_top(prop_S.pq)} :
       /\ prop_S' = [prop_S EXCEPT !.pq = Remove(@, i)]
       /\ IF prop_S.pq[i][1] < get_delta(prop_S.M, prop_S.pq[i][2])
          THEN prop_pc' = "pop" /\ UNCHANGED prop_it
          ELSE /\ prop_pc' = "neighbors"
               /\ prop_it' = [merging |-> prop_it.merging,
                              loops |-> prop_it.loops,
                              attempt |-> IF prop_it.merging THEN prop_it.attempt ELSE None,
                              node |-> prop_S.pq[i][2],
                              fixed_neighbors |-> fixed_nodes_for(prop_S.M, prop_S.pq[i][2]),
                              visited |-> {},
                              to_visit |-> real_neighbors(prop_S.M.g, prop_S.pq[i][2])]
  /\ UNCHANGED <<lsdb_vars, nb_vars, merger_vars, build_vars, sjmp_vars, sb_vars,
                 again_vars, cross_vars, spt_vars, late_vars>>

\* lines 302-309: the lower bound of n has to grow once more for node
influence_loop(S, node, n, fixed_neighbors) ==
  /\ inherit_lb(S.M, n, node, fixed_neighbors) - S.M.data[n].lb > 0
  /\ <<node, n>> \in S.updates

\* lines 300-342: one pass of the for loop over the fake neighbours of the
\* node, the generator resumed first; the loop ends when the generator does
\* and when fail_func returned True
propagate_neighbor ==
  /\ prop_pc = "neighbors"
  /\ \E nx \in {next_fake_neighbor(prop_S.M, prop_it.visited, prop_it.to_visit)} :
       IF ~nx.found
       THEN prop_pc' = "pop" /\ UNCHANGED <<prop_S, prop_it>>
       ELSE \E S \in {propagate_to(prop_S, prop_it.merging, prop_it.node, nx.n,
                                   prop_it.fixed_neighbors)} :
              /\ prop_S' = S
              /\ prop_it' = [prop_it EXCEPT
                   !.visited = nx.visited, !.to_visit = nx.to_visit,
                   !.loops = IF influence_loop(prop_S, prop_it.node, nx.n, prop_it.fixed_neighbors)
                             THEN @ + 1 ELSE @]
              /\ prop_pc' = IF S.returned THEN "pop" ELSE "neighbors"
  /\ UNCHANGED <<lsdb_vars, nb_vars, merger_vars, build_vars, sjmp_vars, sb_vars,
                 again_vars, cross_vars, spt_vars, late_vars>>

\* line 289 with an empty queue, and line 341: propagate_lb returns; solve
\* goes on to merge_fake_nodes on the Nodes the call has written
propagate_return ==
  /\ prop_pc = "pop"
  /\ prop_S.pq = <<>> \/ prop_S.returned
  /\ prop_pc' = "returned"
  /\ IF prop_it.merging
     THEN UNCHANGED <<self, stage>>
     ELSE self' = prop_S.M /\ stage' = "merge_fake_nodes"
  /\ UNCHANGED <<solver, order, igp_topo, fwd_dags, req_i, solve_lsa, prop_S, prop_it,
                 lsdb_vars, nb_vars, build_vars, sjmp_vars, sb_vars,
                 again_vars, cross_vars, spt_vars, late_vars>>

NextPropagate ==
  \/ solve_prepare
  \/ solve_check_dest
  \/ solve_complete_dag
  \/ solve_next_hops
  \/ solve_place_fake_nodes
  \/ solve_initialize_ecmp_deps
  \/ solve_compute_initial_lb
  \/ solve_compute_initial_ub
  \/ propagate_call
  \/ merge_propagate_call
  \/ propagate_pop
  \/ propagate_neighbor
  \/ propagate_return

\* the thread that called propagate_lb runs the loops
propagate_runs == propagate_pop \/ propagate_neighbor \/ propagate_return

\* a call of propagate_lb is running
propagating == prop_pc \in {"pop", "neighbors"}

\* WF_vars(propagate_runs), spelled out: propagate_runs is enabled in the
\* states of a running call and in no other, and every step that leaves
\* such a state is one of its steps
propagate_fairness == []<>(~propagating) \/ []<><<propagating>>_vars

\* the calls of propagate_lb of one pass of solve on a graph of four routers
InitPropagate == InitSolve4 /\ Len(fwd_dags) = 1
SpecPropagate == InitPropagate /\ [][NextPropagate]_vars /\ propagate_fairness

(***************************************************************************)
(* Part IX - properties                                                    *)
(***************************************************************************)
\* the step-by-step call ends as propagate_lb, and as apply_merge on it
PropagateStepsAgree ==
  [][prop_pc = "pop" /\ prop_pc' = "returned" =>
       IF prop_it.merging
       THEN apply_merge_end(prop_S) = prop_it.attempt.r
       ELSE prop_S.M = propagate_lb(self, FALSE, <<>>, <<>>).M]_vars

\* the for loop is about to visit the fake neighbour visited_n
visiting ==
  prop_pc = "neighbors"
    /\ next_fake_neighbor(prop_S.M, prop_it.visited, prop_it.to_visit).found
visited_n == next_fake_neighbor(prop_S.M, prop_it.visited, prop_it.to_visit).n

\* C34: propagate_lb terminates.  A pair (node, n) raises lower bounds at
\* most once in a call: a visit of n from node that asks for an increase
\* after the pair was recorded raises no bound, pushes nothing and goes to
\* fail_func; every bound raised and every element pushed comes with a pair
\* recorded by the same visit, and the recorded pairs only grow.  Every call
\* of propagate_lb, from solve and from apply_merge, returns.
C34_PropagationTerminates ==
  /\ [][visiting =>
          /\ prop_S.updates \subseteq prop_S'.updates
          /\ influence_loop(prop_S, prop_it.node, visited_n, prop_it.fixed_neighbors) =>
               /\ prop_S'.updates = prop_S.updates
               /\ prop_S'.pq = prop_S.pq
               /\ \A n \in DOMAIN prop_S.M.data : prop_S'.M.data[n].lb = prop_S.M.data[n].lb
               /\ IF prop_it.merging
                  THEN prop_S'.failure /\ prop_S'.returned
                  ELSE prop_S'.M.data[visited_n].fake = Node_LOCAL
          /\ (Len(prop_S'.pq) > Len(prop_S.pq)
                \/ \E n \in DOMAIN prop_S.M.data : prop_S'.M.data[n].lb # prop_S.M.data[n].lb) =>
               /\ <<prop_it.node, visited_n>> \notin prop_S.updates
               /\ prop_S'.updates = prop_S.updates \cup {<<prop_it.node, visited_n>>}]_vars
  /\ propagating ~> prop_pc = "returned"

\* a call of propagate_lb that raised bounds, ran into an influence loop and
\* returned
C34_Witness ==
  /\ prop_pc = "returned"
  /\ prop_it.merging
  /\ prop_it.loops > 0
  /\ prop_S.updates # {}
  /\ \E n \in DOMAIN prop_S.M.data : prop_S.M.data[n].lb # prop_it.attempt.M.data[n].lb


(***************************************************************************)
(* Part X - algorithms/southbound_interface.py: a SouthboundListener that  *)
(* handles, in order, the calls the LSDB sends to its session              *)
(***************************************************************************)
\* a str and an int of Python
PyStr(t) == [py |-> "str", s |-> t, i |-> 0]
PyInt(n) == [py |-> "int", s |-> "", i |-> n]

\* the metrics of the Router LSAs: _extract_lsa_properties keeps the text of
\* the field
MetricTexts == {"1", "2"}

\* int(x)
py_int(x) ==
  IF x.py = "int" THEN x
  ELSE PyInt(CASE x.s = "1" -> 1 [] x.s = "2" -> 2)

\* sanitize_edge_data
sanitize_edge_data(d) == [d EXCEPT !.metric = py_int(@)]

\* the links of the Router LSAs fed to the LSDB: r1 has no link, a link to
\* r2 of either metric, or a link to r2 and a link to r3 (a router that sends
\* no LSA); r2 has a link to r1
ReplicaLinkSets(rid) ==
  IF rid = "r1"
  THEN {{}, {[endpoint |-> "r2", metric |-> PyStr("1")],
             [endpoint |-> "r3", metric |-> PyStr("1")]}}
         \cup {{[endpoint |-> "r2", metric |-> PyStr(t)]} : t \in MetricTexts}
  ELSE {{[endpoint |-> "r1", metric |-> PyStr("1")]}}

ReplicaLSAs ==
  UNION {[type : {RouterType}, key : {rid}, seqnum : {1}, age : {0},
          links : ReplicaLinkSets(rid)] : rid \in Rids}

\* the lines fed to the LSDB: the ADD lines of these LSAs and the REM line
\* of r1
ReplicaLines ==
  [action : {ADD}, lsa : ReplicaLSAs]
    \cup [action : {REM}, lsa : {l \in ReplicaLSAs : l.links = {}}]

\* the session of the listener
lst_session == CHOOSE s \in Sessions : TRUE

\* DiGraph.has_edge
nx_has_edge(G, u, v) == <<u, v>> \in DOMAIN G.edge

\* DiGraph.add_edge(u, v, attr_dict): the nodes are created when missing
nx_add_edge(G, u, v, d) ==
  [node |-> [n \in DOMAIN G.node \cup {u, v} |-> Get(G.node, n, {})],
   edge |-> Put(G.edge, <<u, v>>, d)]

\* DiGraph.remove_edge(u, v) when the edge exists
nx_remove_edge(G, u, v) ==
  [G EXCEPT !.edge = [e \in DOMAIN G.edge \ {<<u, v>>} |-> G.edge[e]]]

RECURSIVE nx_add_edges_from(_, _)
\* DiGraph.add_edges_from(ebunch) followed by sanitize_edge_data on every edge
nx_add_edges_from(G, ebunch) ==
  IF ebunch = {} THEN G
  ELSE LET e == CHOOSE x \in ebunch : TRUE
       IN  nx_add_edges_from(nx_add_edge(G, e[1], e[2], sanitize_edge_data(e[3])),
                             ebunch \ {e})

\* the data dict of a node, as a set of keys
node_data(n) == IF n.router THEN {"router"} ELSE {}

\* how a call of the listener ends
Outcome(G, d, raises, changed) == [G |-> G, dirty |-> d, raises |-> raises, changed |-> changed]

\* the loop of update_node_properties over the nodes U of properties
update_nodes(G, properties, U) ==
  [G EXCEPT !.node = [n \in DOMAIN G.node |->
     IF n \in U
     THEN G.node[n] \cup node_data(CHOOSE x \in properties : x.name = n)
     ELSE G.node[n]]]

\* SouthboundListener.update_node_properties: the loop raises KeyError at
\* the first node the graph does not have, after it has updated the nodes
\* that precede it in the dict, whichever they are
update_node_properties(G, d, properties) ==
  LET names   == {x.name : x \in properties}
      missing == names \ DOMAIN G.node
  IN  IF missing = {}
      THEN {Outcome(update_nodes(G, properties, names), d \/ properties # {}, FALSE, 0)}
      ELSE {Outcome(update_nodes(G, properties, U), d, TRUE, 0) : U \in SUBSET (names \ missing)}

\* SouthboundListener.bootstrap_graph, graph_changed included
lst_bootstrap_graph(G, d, edges, node_properties) ==
  {IF o.raises THEN o ELSE [o EXCEPT !.changed = 1] :
     o \in update_node_properties(
             nx_add_edges_from([node |-> <<>>, edge |-> <<>>], edges), d, node_properties)}

\* SouthboundListener.add_edge
lst_add_edge(G, d, source, destination, properties) ==
  LET G1 == nx_add_edge(G, source, destination, sanitize_edge_data(properties))
  IN  {Outcome(G1, nx_has_edge(G1, destination, source), FALSE, 0)}

\* SouthboundListener.remove_edge: NetworkXError is caught, whichever of the
\* two remove_edge calls raised it
lst_remove_edge(G, d, source, destination) ==
  IF ~nx_has_edge(G, source, destination) THEN {Outcome(G, d, FALSE, 0)}
  ELSE IF ~nx_has_edge(G, destination, source)
       THEN {Outcome(nx_remove_edge(G, source, destination), d, FALSE, 0)}
       ELSE {Outcome(nx_remove_edge(nx_remove_edge(G, source, destination),
                                    destination, source), TRUE, FALSE, 0)}

\* SouthboundListener.commit
lst_commit(G, d) == {Outcome(G, FALSE, FALSE, IF d THEN 1 ELSE 0)}

\* _json_exec: the call named by the message, on the listener
lst_exec(G, d, msg) ==
  CASE msg.kind = "bootstrap_graph" -> lst_bootstrap_graph(G, d, msg.arg[1], msg.arg[2])
    [] msg.kind = "add_edge" -> lst_add_edge(G, d, msg.arg[1], msg.arg[2], msg.arg[3])
    [] msg.kind = "remove_edge" -> lst_remove_edge(G, d, msg.arg[1], msg.arg[2])
    [] msg.kind = "update_node_properties" -> update_node_properties(G, d, msg.arg)
    [] msg.kind = "commit" -> lst_commit(G, d)

\* whether the call is one of the changes a commit() has to report
owes(G, G1, msg) ==
  CASE msg.kind = "add_edge" -> nx_has_edge(G1, msg.arg[2], msg.arg[1])
    [] msg.kind = "remove_edge" -> G1.edge # G.edge
    [] msg.kind = "update_node_properties" -> msg.arg # {}
    [] OTHER -> FALSE

\* communicate reads the next message of the session and runs its call
listener_handle ==
  /\ rcvd < Len(sent[lst_session])
  /\ \E msg \in {sent[lst_session][rcvd + 1]} :
       \E o \in lst_exec(igp_graph, dirty, msg) :
         /\ igp_graph' = o.G
         /\ dirty' = o.dirty
         /\ last_call' = [kind |-> msg.kind, raises |-> o.raises, changed |-> o.changed]
         /\ owed' = IF msg.kind \in {"commit", "bootstrap_graph"} THEN FALSE
                    ELSE owed \/ owes(igp_graph, o.G, msg)
  /\ rcvd' = rcvd + 1
  /\ UNCHANGED <<lsdb_vars, nb_vars, merger_vars, build_vars, sjmp_vars, sb_vars,
                 again_vars, cross_vars, spt_vars, prop_vars, fm_vars>>

NextReplica ==
  \/ process_lsa_line
  \/ process_lsa_timeout
  \/ update_graph_step
  \/ \E line \in ReplicaLines : commit_change(line)
  \/ \E s \in Sessions : register_insert(s)
  \/ \E s \in Sessions : register_bootstrap(s)
  \/ listener_handle

SpecReplica == Init /\ [][NextReplica]_vars

(***************************************************************************)
(* Part X - properties                                                     *)
(***************************************************************************)
\* the LSDB has committed every change it has handled
committed == worker_pc = "loop" /\ uncommitted_changes = 0

\* the listener is connected and has handled every call sent to it
synced ==
  /\ client_pc[lst_session] = "attached"
  /\ rcvd = Len(sent[lst_session])

\* the edges of the replica with their data, as export_edges gives them
replica_edges == {<<e[1], e[2], igp_graph.edge[e]>> : e \in DOMAIN igp_graph.edge}

\* C38: after a commit LSDB.graph is the graph the LSAs of the store build,
\* and a listener that has handled every call sent to it holds the edges of
\* LSDB.graph with the data export_edges gives them.
C38_ReplicaEqualsGraph ==
  committed =>
    /\ graph = build_graph(lsdb)
    /\ synced => replica_edges = export_edges(graph)

\* the edges of an LSDB graph, without their data
edge_pairs(g) == {<<e.u, e.v>> : e \in g.edges}

\* what update_graph keeps: after a commit the published graph has the
\* edges of the rebuilt graph, whatever their data and the nodes
PublishedEdgeSet == committed => edge_pairs(graph) = edge_pairs(build_graph(lsdb))

\* the step handles a commit() call
handles_commit ==
  /\ rcvd' = rcvd + 1
  /\ sent[lst_session][rcvd'].kind = "commit"

\* C39: a commit() that follows an add_edge that completed a bidirectional
\* link, a remove_edge that deleted an edge or a non-empty
\* update_node_properties calls graph_changed once and clears dirty, also
\* when an add_edge of a one-way edge came after the change; a commit() that
\* follows no such call calls nothing.
C39_CommitReportsChanges ==
  [][handles_commit =>
       /\ owed => last_call'.changed = 1 /\ ~dirty'
       /\ ~owed => last_call'.changed = 0]_vars

\* what commit() does: it calls graph_changed once when dirty is set, never
\* otherwise, and clears it
CommitFollowsDirty ==
  [][handles_commit =>
       /\ last_call'.changed = (IF dirty THEN 1 ELSE 0)
       /\ ~dirty']_vars

(***************************************************************************)
(* Part XI - FibbingManager: check_leader, proxy_add, proxy_remove         *)
(* (southbound/fibbing.py) and LSDB.get_leader (southbound/lsdb/lsdb.py)   *)
(***************************************************************************)
\* FibbingManager.instance: the instance number of this controller
Instance == 1
\* the controller ids that LSDB.build_graph can find in the graph
ControllerIds == {0, 1}
\* the longest list of points of one call
MaxPoints == 2
\* how many calls the manager receives
MaxManagerCalls == 5
\* what Router.get_fwd_address returned for the points of a call
ManagerAddresses == {"i1", "p2/24", PyNone}
\* the (address, metric) lists that _get_proxy_routes yields for one prefix
ManagerRoutes ==
  UNION {[1..n -> {<<a, "1">> : a \in ManagerAddresses}] : n \in 1..MaxPoints}

\* LSDB.get_leader(): min(self.controllers.iterkeys()), or None, given here
\* as the set holding the minimum, empty for None
get_leader(C) == {c \in C : \A d \in C : c <= d}

\* AttractionPoint.__init__(address, metric, node)
AttractionPoint(address, cost, node) ==
  [address |-> ip_of(address), metric |-> cost, node |-> node, advertized |-> FALSE]

\* Router.advertize(prefix, via, metric): ip ospf fibbing prefix via ... cost ...
node_advertize(adv, node, prefix, via) ==
  {a \in adv : ~(a.node = node /\ a.prefix = prefix)}
    \cup {[node |-> node, prefix |-> prefix, via |-> via]}

\* Router.retract(prefix): no ip ospf fibbing prefix
node_retract(adv, node, prefix) ==
  {a \in adv : ~(a.node = node /\ a.prefix = prefix)}

\* the manager's routes and what its nodes do, as one value
Manager(routes, mappings, advertised, retracted) ==
  [routes |-> routes, mappings |-> mappings, advertised |-> advertised,
   retracted |-> retracted]

RECURSIVE route_append(_, _, _, _)
\* FibbingRoute.append(points, advertize): p.advertize(self.prefix) when
\* advertize, then attraction_points[p.address] = p
route_append(M, prefix, points, advertize) ==
  IF points = <<>> THEN M
  ELSE LET p == Head(points)
           stored == [p EXCEPT !.advertized = advertize]
       IN  route_append(
             [M EXCEPT !.routes = (prefix :> ((p.address :> stored) @@ M.routes[prefix])) @@ @,
                       !.advertised = IF advertize
                                      THEN node_advertize(@, p.node, prefix, p.address)
                                      ELSE @],
             prefix, Tail(points), advertize)

\* FibbingManager.install_route up to "mappings = self.route_mappings[net]":
\* the route is created when it is missing
known_route(M, network) ==
  IF network \in DOMAIN M.routes THEN M
  ELSE [M EXCEPT !.routes = (network :> <<>>) @@ @,
                 !.mappings = (network :> {}) @@ @]

\* the points of a call that have an address ("for addr, metric in points if addr")
with_address(points) == SelectSeq(points, LAMBDA p : p[1] # PyNone)

\* len(self.nodes) after "while size > len(self.nodes): self.add_node()"
nodes_after(M, count, network, points) ==
  LET size == Cardinality(DOMAIN known_route(M, network).routes[network]) + Len(points)
  IN  IF size > count THEN size ELSE count

\* nodes = [n for n in self.nodes.values() if n not in mappings]
available(M, count, network, points) ==
  (1..nodes_after(M, count, network, points)) \ known_route(M, network).mappings[network]

\* the nodes that n calls of nodes.pop() can return: the order of the values
\* of a dict is not fixed by the program
Pops(avail, n) ==
  {s \in [1..n -> avail] : \A i, j \in 1..n : i # j => s[i] # s[j]}

\* FibbingManager.install_route(network, points, advertize), the nodes that
\* nodes.pop() returned being pops
fm_install_route(M, network, points, advertize, pops) ==
  LET K == known_route(M, network)
      valid == with_address(points)
      attraction_points ==
        [i \in 1..Len(valid) |-> AttractionPoint(valid[i][1], valid[i][2], pops[i])]
      used == {pops[i] : i \in 1..Len(valid)}
  IN  route_append(
        [K EXCEPT !.mappings = (network :> (K.mappings[network] \cup used)) @@ @,
                  !.retracted = {r \in @ : ~(r.prefix = network /\ r.node \in used)}],
        network, attraction_points, advertize)

RECURSIVE route_retract(_, _, _, _)
\* the loop of FibbingManager.remove_route_part over elems:
\* FibbingRoute.retract(e, advertize) pops the point, retracts it when
\* advertize, and its node leaves the mappings; an unknown address is skipped
route_retract(M, network, advertize, elems) ==
  IF elems = <<>> THEN M
  ELSE LET e == Head(elems)
           route == M.routes[network]
       IN  IF e \notin DOMAIN route
           THEN route_retract(M, network, advertize, Tail(elems))
           ELSE LET point == route[e]
                IN  route_retract(
                      [M EXCEPT !.routes = (network :> [a \in DOMAIN route \ {e} |-> route[a]]) @@ @,
                                !.advertised = IF advertize
                                               THEN node_retract(@, point.node, network)
                                               ELSE @,
                                !.mappings = (network :> (@[network] \ {point.node})) @@ @,
                                !.retracted = @ \cup {[node |-> point.node, prefix |-> network]}],
                      network, advertize, Tail(elems))

\* FibbingManager.remove_route_part(network, advertize, *elems)
fm_remove_route_part(M, network, advertize, elems) ==
  IF network \notin DOMAIN M.routes THEN M
  ELSE LET R == route_retract(M, network, advertize, elems)
       IN  IF DOMAIN R.routes[network] = {}
           THEN [R EXCEPT !.routes = [n \in DOMAIN @ \ {network} |-> @[n]],
                          !.mappings = [n \in DOMAIN @ \ {network} |-> @[n]]]
           ELSE R

\* FibbingRoute.advertize() of every route: each point advertizes
advertize_routes(M) ==
  [M EXCEPT !.routes = [n \in DOMAIN @ |->
                          [a \in DOMAIN @[n] |-> [@[n][a] EXCEPT !.advertized = TRUE]]],
            !.advertised =
              {x \in @ : ~\E n \in DOMAIN M.routes : \E a \in DOMAIN M.routes[n] :
                            x.prefix = n /\ x.node = M.routes[n][a].node}
                \cup {[node |-> M.routes[n][a].node, prefix |-> n, via |-> a] :
                        <<n, a>> \in {<<n, a>> \in PointPrefixes \X {"i1", "p2"} :
                                        n \in DOMAIN M.routes /\ a \in DOMAIN M.routes[n]}}]

\* the manager's state as one value, and its assignment
this_manager == Manager(fm_routes, fm_mappings, fm_advertised, fm_retracted)
manager_becomes(M) ==
  /\ fm_routes' = M.routes
  /\ fm_mappings' = M.mappings
  /\ fm_advertised' = M.advertised
  /\ fm_retracted' = M.retracted

\* LSDB.commit(): build_graph() refills self.controllers with C, then
\* update_graph() calls FibbingManager.check_leader(self.get_leader())
fm_check_leader(C) ==
  /\ fm_calls_left > 0
  /\ fm_calls_left' = fm_calls_left - 1
  /\ fm_controllers' = C
  /\ fm_leader' = (get_leader(C) = {Instance})
  /\ IF fm_leader' /\ ~fm_leader
     THEN manager_becomes(advertize_routes(this_manager))
     ELSE UNCHANGED <<fm_routes, fm_mappings, fm_advertised, fm_retracted>>
  /\ UNCHANGED <<fm_nodes, lsdb_vars, nb_vars, merger_vars, build_vars, sjmp_vars, sb_vars,
                 again_vars, cross_vars, spt_vars, prop_vars, lst_vars>>

\* FibbingManager.proxy_add(points), the points being those of one prefix
\* with the route that _get_proxy_routes yields for them:
\* install_route(prefix, route, self.leader); nodes.pop() raises IndexError
\* when the nodes outside the mappings are fewer than the points
fm_proxy_add(prefix, route) ==
  /\ fm_calls_left > 0
  /\ fm_calls_left' = fm_calls_left - 1
  /\ fm_nodes' = nodes_after(this_manager, fm_nodes, prefix, route)
  /\ IF Cardinality(available(this_manager, fm_nodes, prefix, route)) < Len(with_address(route))
     THEN manager_becomes(known_route(this_manager, prefix))
     ELSE \E pops \in Pops(available(this_manager, fm_nodes, prefix, route),
                           Len(with_address(route))) :
            manager_becomes(fm_install_route(this_manager, prefix, route, fm_leader, pops))
  /\ UNCHANGED <<fm_controllers, fm_leader, lsdb_vars, nb_vars, merger_vars, build_vars,
                 sjmp_vars, sb_vars, again_vars, cross_vars, spt_vars, prop_vars, lst_vars>>

\* FibbingManager.proxy_remove(points), the points being those of one prefix:
\* remove_route_part(prefix, self.leader, *(r[0] for r in route))
fm_proxy_remove(prefix, route) ==
  /\ fm_calls_left > 0
  /\ fm_calls_left' = fm_calls_left - 1
  /\ manager_becomes(fm_remove_route_part(this_manager, prefix, fm_leader,
                                          [i \in DOMAIN route |-> route[i][1]]))
  /\ UNCHANGED <<fm_controllers, fm_leader, fm_nodes, lsdb_vars, nb_vars, merger_vars,
                 build_vars, sjmp_vars, sb_vars, again_vars, cross_vars, spt_vars,
                 prop_vars, lst_vars>>

NextManager ==
  \/ \E C \in SUBSET ControllerIds : fm_check_leader(C)
  \/ \E prefix \in PointPrefixes, route \in ManagerRoutes : fm_proxy_add(prefix, route)
  \/ \E prefix \in PointPrefixes, route \in ManagerRoutes : fm_proxy_remove(prefix, route)

\* one manager and its nodes, everything else at rest
InitManager ==
  InitLSDB /\ InitNB /\ additional_routes = {} /\ NoSolve /\ NoBuild /\ NoSJMP /\ NoSouthbound
    /\ NoAgain /\ NoCross /\ NoSPT /\ NoPropagate /\ NoListener
    /\ fm_controllers = {} /\ fm_leader = FALSE /\ fm_nodes = 0 /\ fm_routes = <<>>
    /\ fm_mappings = <<>> /\ fm_advertised = {} /\ fm_retracted = {}
    /\ fm_calls_left = MaxManagerCalls
SpecManager == InitManager /\ [][NextManager]_vars

(***************************************************************************)
(* Part XI - properties                                                    *)
(***************************************************************************)
\* this instance is the leader: its number is the least controller id
is_leader == get_leader(fm_controllers) = {Instance}

\* the points of the installed routes
installed_points ==
  UNION {{fm_routes[n][a] : a \in DOMAIN fm_routes[n]} : n \in DOMAIN fm_routes}

\* the node still advertizes the prefix
advertises(node, prefix) ==
  \E a \in fm_advertised : a.node = node /\ a.prefix = prefix

\* C40: whenever this instance is the leader, every attraction point of
\* every installed route has been advertised, and no attraction point that
\* was retracted from a route is still advertised by its node
C40_LeaderAdvertisesRoutes ==
  is_leader =>
    /\ \A p \in installed_points : p.advertized
    /\ \A r \in fm_retracted : ~advertises(r.node, r.prefix)

\* what holds: the leader flag follows the LSDB, the leader has advertised
\* every point of every route on the point's node, and a point retracted
\* while this instance is the leader is no longer advertised by its node
LeaderAdvertisesInstalledPoints ==
  /\ [](fm_leader = is_leader)
  /\ [](is_leader =>
          \A n \in DOMAIN fm_routes : \A a \in DOMAIN fm_routes[n] :
             /\ fm_routes[n][a].advertized
             /\ [node |-> fm_routes[n][a].node, prefix |-> n, via |-> a] \in fm_advertised)
  /\ [][fm_leader /\ fm_leader' =>
          \A r \in fm_retracted' \ fm_retracted : ~advertises(r.node, r.prefix)']_vars
====
